---- MODULE Spec2Model ----
(***************************************************************************)
(* A model of the semantic analyser of frugal (package sema), of the      *)
(* compile context of package parser, and of the socket pool and the       *)
(* socket of the Go library (lib/frugal).                                  *)
(*                                                                         *)
(* A program is the flattened list of its parse trees.  A pointer to a     *)
(* top-level node is the pair [T |-> tree index, N |-> node index]; a      *)
(* pointer to an enum entry or to a struct field is its index in the       *)
(* owning node.  A Go nil, and an absent map entry, is the empty sequence  *)
(* <<>>; a present value x is <<x>>.  Go maps are functions whose domain   *)
(* is the set of keys.                                                     *)
(***************************************************************************)
EXTENDS Integers, Sequences, FiniteSets, TLC

VARIABLES
    trees,      \* the flattened list of parse trees, mutated in place by the phases
    context,    \* the CompileContext: [CurFile, Errors]
    phase,      \* runPhases: index into compilePhases of the outer loop
    treeIdx,    \* runPhases: index into trees of the inner loop
    pc,         \* "running", "done" (Analyze returned), or how it failed to return:
                \* "overflow" (stack overflow), "hung" (endless loop), "panic"
    result,     \* what Analyze returned: "none" until it returns, then "true" or "false"
    calls,      \* history of the phase invocations made so far: [phase, tree, errors]
    pool,       \* the SocketPool: [maxIdle, connections, closed, lock]
    saps,       \* the connections the factory has made: for each, whether its socket is closed
    held,       \* the connections that Get has handed to the clients and that are not Put back
    goroutines, \* the goroutines that call the pool: for each, where it is in its call
    poolLog,    \* history of the calls of the pool, in the order they had the lock
    socket,     \* the Socket: its fields
    stores,     \* the arrays allocated by the socket's write buffer: the size of each
    conns,      \* the connections dialled so far: for each, its address, its peer, what was sent
    returned    \* what the last call of a Socket method did and returned

semaVars == <<trees, context, phase, treeIdx, pc, result, calls>>
poolVars == <<pool, saps, held, goroutines, poolLog>>
socketVars == <<socket, stores, conns, returned>>

vars == <<trees, context, phase, treeIdx, pc, result, calls, pool, saps, held,
         goroutines, poolLog, socket, stores, conns, returned>>

----------------------------------------------------------------------------
(* Bounds of the model *)

\* width of the "32-bit" integers of the model (int32 is scaled down to I32Bits bits,
\* and the literals, which are int64 in the code, go beyond it on both sides)
I32Bits == 3
\* the most entries an enum of the model has
MaxEntries == 3
\* the most fields a struct of the model has
MaxFields == 3
\* the most top-level declarations of a tree in the programs about redeclaration
MaxDecls == 3
\* the most trees of a program in the programs about the phase driver
MaxTrees == 3
\* the most references of the including file in the programs about includes
MaxRefs == 2
\* the most services of a program in the programs about service inheritance
MaxServices == 3
\* the most arguments, and the most exceptions, of a method in the programs about order
\* numbers
MaxArgs == 2
\* the most calls a client makes on the compile context itself
MaxCalls == 3
\* the most goroutines that use a socket pool
MaxGoroutines == 2
\* the most calls (of Get, Put and Close together) made on a socket pool
MaxPoolCalls == 5
\* the greatest maxIdle a socket pool is made with
MaxIdle == 2
\* the most connections a socket dials, its first included
MaxConns == 2
\* the most chunks a socket keeps to resend
MaxResend == 2
\* the most bytes a socket holds unflushed
MaxPending == 1

----------------------------------------------------------------------------
(* Generic helpers *)

None == <<>>
Some(x) == <<x>>

MapPut(m, k, v) == [x \in (DOMAIN m) \cup {k} |-> IF x = k THEN v ELSE m[x]]

EmptyMap == [x \in {} |-> 0]

Pow2(n) == 2 ^ n

I32Min == 0 - Pow2(I32Bits - 1)
I32Max == Pow2(I32Bits - 1) - 1

\* the Go conversion int32(x) of an int64 x: keep the low bits, two's complement
ToInt32(x) == ((x - I32Min) % Pow2(I32Bits)) + I32Min

SubSeqFrom(s, i) == IF i > Len(s) THEN <<>> ELSE SubSeq(s, i, Len(s))

\* K applied to the value v: a local variable of the code, assigned once and read in K
With(v, K(_)) == K(v)

----------------------------------------------------------------------------
(* Tokens (parser/tokens.go) *)

Token(kind, data, loc) == [Kind |-> kind, Data |-> data, Loc |-> loc]

Ident(id, loc) == Token("TOK_IDENTIFIER", id, loc)
IntLit(v, loc) == Token("TOK_LITERAL_INT", v, loc)
StrLit(s, loc) == Token("TOK_LITERAL_STRING", s, loc)
Keyword(kind, loc) == Token(kind, "", loc)

Identifier(tok) == tok.Data
IntLiteral(tok) == tok.Data
StringLiteral(tok) == tok.Data

\* JoinIdentifiers: the identifiers of a path, kept as a sequence
PathIds(path) == [i \in 1..Len(path) |-> Identifier(path[i])]

----------------------------------------------------------------------------
(* AST nodes (parser/ast.go) *)

BuiltinType(kind) == [k |-> "builtin", Tok |-> Keyword(kind, 0)]
ListType(inner) == [k |-> "list", Inner |-> inner]
MapType(key, value) == [k |-> "map", Key |-> key, Value |-> value]

\* a name, used as a type or as a value; Import, Binding and Tail are filled by the binder
NameProxyNode(path) ==
    [k |-> "name", Path |-> path, Import |-> None, Binding |-> None, Tail |-> <<>>]

LiteralNode(tok) == [k |-> "literal", Lit |-> tok]
ListNode(exprs) == [k |-> "listnode", Exprs |-> exprs]
MapNodeEntry(key, value) == [Key |-> key, Value |-> value]
MapNode(entries) == [k |-> "mapnode", Entries |-> entries]

EnumEntry(name, value) == [Name |-> name, Value |-> value, ConstVal |-> 0]
EnumNode(name, entries) ==
    [k |-> "enum", Name |-> name, Entries |-> entries, Names |-> EmptyMap]

StructField(order, spec, type, name, default) ==
    [Order |-> order, Spec |-> spec, Type |-> type, Name |-> name, Default |-> default]
StructNode(kind, name, fields) ==
    [k |-> "struct", Tok |-> Keyword(kind, name.Loc), Name |-> name, Fields |-> fields,
     Names |-> EmptyMap]

TypedefNode(type, name) == [k |-> "typedef", Type |-> type, Name |-> name]

ServiceMethodArg(order, type, name) == [Order |-> order, Type |-> type, Name |-> name]
ServiceMethod(ret, name, args, throws) ==
    [ReturnType |-> ret, Name |-> name, Args |-> args, Throws |-> throws]
ServiceNode(name, extends, methods) ==
    [k |-> "service", Name |-> name, Extends |-> extends, Methods |-> methods]

ConstNode(type, name, init) == [k |-> "const", Type |-> type, Name |-> name, Init |-> init]

\* an include directive of a tree: its token and the index of the included tree
Include(tok, tree) == [Tok |-> tok, Tree |-> tree]

ParseTree(path, package, includes, nodes) ==
    [Path |-> path, Package |-> package, Includes |-> includes, Nodes |-> nodes,
     Names |-> EmptyMap, UsedIncludes |-> {}]

\* Node.Loc().Start: the position a node is reported at.  Positions are line numbers.  A
\* list or a map starts at its first element (the model's lists and maps are never
\* empty: Loc() indexes the first element); a declaration's Range starts on the line of
\* its name
RECURSIVE NodeLoc(_)
NodeLoc(node) ==
    CASE node.k = "literal" -> node.Lit.Loc
      [] node.k = "name" -> node.Path[1].Loc
      [] node.k = "listnode" -> NodeLoc(node.Exprs[1])
      [] node.k = "mapnode" -> NodeLoc(node.Entries[1].Key)
      [] node.k = "builtin" -> node.Tok.Loc
      [] OTHER -> node.Name.Loc

\* Node.NodeType()
NodeType(node) ==
    CASE node.k = "struct" -> IF node.Tok.Kind = "TOK_EXCEPTION" THEN "exception" ELSE "struct"
      [] node.k = "const" -> "constant"
      [] node.k = "listnode" -> "list"
      [] node.k = "mapnode" -> "map"
      [] OTHER -> node.k

\* the node a pointer designates
Deref(ts, ptr) == ts[ptr.T].Nodes[ptr.N]

----------------------------------------------------------------------------
(* The compile context (parser/context.go) *)

NewCompileContext == [CurFile |-> "", Errors |-> <<>>]

CompileError(file, pos, msg, name, prev) ==
    [File |-> file, Pos |-> pos, Message |-> msg, Name |-> name, Prev |-> prev]

\* Enter panics when a file is entered already
EnterPanics(ctx) == ctx.CurFile # ""

\* Enter when it does not panic
Enter(ctx, file) == [ctx EXCEPT !.CurFile = file]

Leave(ctx) == [ctx EXCEPT !.CurFile = ""]

HasErrors(ctx) == Len(ctx.Errors) > 0

\* ReportError that keeps the newest diagnostic only
ReportErrorLatest(ctx, pos, msg, name, prev) ==
    [ctx EXCEPT !.Errors = <<CompileError(ctx.CurFile, pos, msg, name, prev)>>]

\* msg is the format string's kind; name and prev are the arguments the claims read
ReportError(ctx, pos, msg, name, prev) ==
    [ctx EXCEPT !.Errors = Append(@, CompileError(ctx.CurFile, pos, msg, name, prev))]

\* reports a redeclaration at pos of the name first declared by the token prev
ReportRedeclaration(ctx, pos, prev) ==
    ReportError(ctx, pos, "redeclared", Identifier(prev), prev.Loc)

\* the analysis state the phases thread through: the trees and the context
State(ts, ctx) == [trees |-> ts, ctx |-> ctx]

----------------------------------------------------------------------------
(* Phase 1: enter symbols (sema/enter_symbols.go) *)

\* enterGlobalSymbol with the last declaration of a name winning: the name map is
\* overwritten where the code returns after the report
enterGlobalSymbolLast(st, t, name, n) ==
    IF Identifier(name) \in DOMAIN st.trees[t].Names
    THEN [st EXCEPT !.ctx = ReportError(@, name.Loc, "already declared", Identifier(name),
                                        NodeLoc(st.trees[t].Nodes[
                                                  st.trees[t].Names[Identifier(name)]])),
                    !.trees[t].Names = MapPut(@, Identifier(name), n)]
    ELSE [st EXCEPT !.trees[t].Names = MapPut(@, Identifier(name), n)]

enterGlobalSymbol(st, t, name, n) ==
    LET names == st.trees[t].Names IN
    IF Identifier(name) \in DOMAIN names
    THEN [st EXCEPT !.ctx = ReportError(@, name.Loc, "already declared", Identifier(name),
                                        NodeLoc(st.trees[t].Nodes[names[Identifier(name)]]))]
    ELSE [st EXCEPT !.trees[t].Names = MapPut(@, Identifier(name), n)]

\* the end of the loop body of enterEnumSymbols: entry i gets the value, and its name
\* is entered unless an earlier entry has it
enterEnumEntry(st, t, n, i, value) ==
    LET node == st.trees[t].Nodes[n]
        name == node.Entries[i].Name
    IN IF Identifier(name) \in DOMAIN node.Names
       THEN State([st.trees EXCEPT ![t].Nodes[n].Entries[i].ConstVal = value],
                  ReportRedeclaration(st.ctx, name.Loc,
                                      node.Entries[node.Names[Identifier(name)]].Name))
       ELSE State([st.trees EXCEPT ![t].Nodes[n].Entries[i].ConstVal = value,
                                   ![t].Nodes[n].Names = MapPut(@, Identifier(name), i)],
                  st.ctx)

\* the loop of enterEnumSymbols; value is the running value before entry i
RECURSIVE enterEnumEntries(_, _, _, _, _)
enterEnumEntries(st, t, n, i, value) ==
    LET entry == st.trees[t].Nodes[n].Entries[i] IN
    IF i > Len(st.trees[t].Nodes[n].Entries) THEN st
    ELSE IF entry.Value = None
    THEN enterEnumEntries(enterEnumEntry(st, t, n, i, value), t, n, i + 1, ToInt32(value + 1))
    ELSE With(ToInt32(IntLiteral(entry.Value[1])), LAMBDA v :
           enterEnumEntries(
             enterEnumEntry(
               IF v # IntLiteral(entry.Value[1])
               THEN [st EXCEPT !.ctx = ReportError(@, entry.Value[1].Loc,
                                                   "does not fit in a 32-bit integer",
                                                   Identifier(entry.Name), 0)]
               ELSE st,
               t, n, i, v),
             t, n, i + 1, ToInt32(v + 1)))

enterEnumSymbols(st, t, n) == enterEnumEntries(st, t, n, 1, 0)

RECURSIVE enterStructFields(_, _, _, _)
enterStructFields(st, t, n, i) ==
    LET node == st.trees[t].Nodes[n]
        name == node.Fields[i].Name
    IN IF i > Len(node.Fields) THEN st
       ELSE IF Identifier(name) \in DOMAIN node.Names
       THEN enterStructFields(
              [st EXCEPT !.ctx = ReportRedeclaration(
                                   @, name.Loc,
                                   node.Fields[node.Names[Identifier(name)]].Name)],
              t, n, i + 1)
       ELSE enterStructFields(
              [st EXCEPT !.trees[t].Nodes[n].Names = MapPut(@, Identifier(name), i)],
              t, n, i + 1)

enterStructSymbols(st, t, n) == enterStructFields(st, t, n, 1)

\* the arguments and the throws of a method share one scope: append(method.Args, method.Throws...)
RECURSIVE checkArgNames(_, _, _, _)
checkArgNames(ctx, args, i, argNames) ==
    IF i > Len(args) THEN ctx
    ELSE IF Identifier(args[i].Name) \in DOMAIN argNames
    THEN checkArgNames(ReportRedeclaration(ctx, args[i].Name.Loc,
                                           args[argNames[Identifier(args[i].Name)]].Name),
                       args, i + 1, argNames)
    ELSE checkArgNames(ctx, args, i + 1, MapPut(argNames, Identifier(args[i].Name), i))

RECURSIVE checkMethodNames(_, _, _, _)
checkMethodNames(ctx, methods, i, symbols) ==
    IF i > Len(methods) THEN ctx
    ELSE IF Identifier(methods[i].Name) \in DOMAIN symbols
    THEN checkMethodNames(
           ReportRedeclaration(ctx, methods[i].Name.Loc,
                               methods[symbols[Identifier(methods[i].Name)]].Name),
           methods, i + 1, symbols)
    ELSE checkMethodNames(
           checkArgNames(ctx, methods[i].Args \o methods[i].Throws, 1, EmptyMap),
           methods, i + 1, MapPut(symbols, Identifier(methods[i].Name), i))

checkServiceSymbols(st, t, n) ==
    [st EXCEPT !.ctx = checkMethodNames(@, st.trees[t].Nodes[n].Methods, 1, EmptyMap)]

\* the symbols of the node's own scope, entered after the node itself
enterMemberSymbols(st, t, n) ==
    CASE st.trees[t].Nodes[n].k = "enum" -> enterEnumSymbols(st, t, n)
      [] st.trees[t].Nodes[n].k = "struct" -> enterStructSymbols(st, t, n)
      [] st.trees[t].Nodes[n].k = "service" -> checkServiceSymbols(st, t, n)
      [] OTHER -> st

enterSymbolsForNode(st, t, n) ==
    enterMemberSymbols(enterGlobalSymbol(st, t, st.trees[t].Nodes[n].Name, n), t, n)

RECURSIVE enterSymbolsNodes(_, _, _)
enterSymbolsNodes(st, t, n) ==
    IF n > Len(st.trees[t].Nodes) THEN st
    ELSE enterSymbolsNodes(enterSymbolsForNode(st, t, n), t, n + 1)

\* what a phase callback leaves: the state, its verdict !context.HasErrors(), and how
\* it ended ("returned", or the way it failed to return)
PhaseResult(st, end) == [st |-> st, ok |-> ~HasErrors(st.ctx), end |-> end]

enterSymbols(st, t) == PhaseResult(enterSymbolsNodes(st, t, 1), "returned")

----------------------------------------------------------------------------
(* Phase 2: bind names (sema/name_binding.go) *)

\* a resolution: the state, and the Import, Binding and Tail the name gets
Resolution(st, import, binding, tail) ==
    [st |-> st, Import |-> import, Binding |-> binding, Tail |-> tail]

\* the lookup of resolvePathInPackage, once the package is marked
lookupInPackage(st, path, tree, import) ==
    IF Identifier(path[1]) \notin DOMAIN st.trees[tree].Names
    THEN Resolution([st EXCEPT !.ctx = ReportError(@, path[1].Loc, "not found in package",
                                                   Identifier(path[1]), 0)],
                    import, None, <<>>)
    ELSE Resolution(st, import,
                    Some([T |-> tree, N |-> st.trees[tree].Names[Identifier(path[1])]]),
                    SubSeqFrom(path, 2))

\* this.tree is cur; tree is the tree the path is looked up in; import is what resolvePath
\* returns beside the binding and the tail
resolvePathInPackage(st, cur, path, tree, import) ==
    \* Mark the package as used, whether or not we find what we're looking for.
    lookupInPackage([st EXCEPT !.trees[cur].UsedIncludes = @ \cup {st.trees[tree].Package}],
                    path, tree, import)

\* resolvePath that goes to the package before the global symbols
resolvePathPackageFirst(st, cur, path) ==
    IF Identifier(path[1]) \in DOMAIN st.trees[cur].Includes
    THEN IF Len(path) = 1
         THEN Resolution([st EXCEPT !.ctx = ReportError(@, path[1].Loc, "is a package",
                                                        Identifier(path[1]), 0)],
                         None, None, <<>>)
         ELSE resolvePathInPackage(st, cur, SubSeqFrom(path, 2),
                                   st.trees[cur].Includes[Identifier(path[1])].Tree,
                                   Some(st.trees[cur].Includes[Identifier(path[1])].Tree))
    ELSE IF Identifier(path[1]) \in DOMAIN st.trees[cur].Names
    THEN resolvePathInPackage(st, cur, path, cur, None)
    ELSE Resolution([st EXCEPT !.ctx = ReportError(@, path[1].Loc, "no definition or package",
                                                   Identifier(path[1]), 0)],
                    None, None, <<>>)

resolvePath(st, cur, path) ==
    IF Identifier(path[1]) \in DOMAIN st.trees[cur].Names
    THEN \* Resolve to global symbols first.
         resolvePathInPackage(st, cur, path, cur, None)
    ELSE IF Identifier(path[1]) \in DOMAIN st.trees[cur].Includes
    THEN \* Otherwise, go to the package.
         IF Len(path) = 1
         THEN Resolution([st EXCEPT !.ctx = ReportError(@, path[1].Loc, "is a package",
                                                        Identifier(path[1]), 0)],
                         None, None, <<>>)
         ELSE resolvePathInPackage(st, cur, SubSeqFrom(path, 2),
                                   st.trees[cur].Includes[Identifier(path[1])].Tree,
                                   Some(st.trees[cur].Includes[Identifier(path[1])].Tree))
    ELSE \* Lastly.. fail.
         Resolution([st EXCEPT !.ctx = ReportError(@, path[1].Loc, "no definition or package",
                                                   Identifier(path[1]), 0)],
                    None, None, <<>>)

\* the binder's walks return the state and the rewritten type, expression or list
Walked(st, v) == [st |-> st, v |-> v]

\* node.Import, node.Binding, node.Tail = this.resolvePath(node.Path)
bindName(st, cur, node) ==
    With(resolvePath(st, cur, node.Path), LAMBDA r :
      Walked(r.st, [node EXCEPT !.Import = r.Import, !.Binding = r.Binding,
                                !.Tail = r.Tail]))

RECURSIVE bindType(_, _, _)
bindType(st, cur, ttype) ==
    CASE ttype.k = "name" -> bindName(st, cur, ttype)
      [] ttype.k = "list" ->
           With(bindType(st, cur, ttype.Inner), LAMBDA r :
             Walked(r.st, [ttype EXCEPT !.Inner = r.v]))
      [] ttype.k = "map" ->
           With(bindType(st, cur, ttype.Key), LAMBDA rk :
             With(bindType(rk.st, cur, ttype.Value), LAMBDA rv :
               Walked(rv.st, [ttype EXCEPT !.Key = rk.v, !.Value = rv.v])))
      [] OTHER -> Walked(st, ttype)

\* bindNamesInNode on an expression: a name, a map, a list or a literal
RECURSIVE bindExpr(_, _, _)
RECURSIVE bindExprs(_, _, _, _)
RECURSIVE bindEntries(_, _, _, _)
bindExpr(st, cur, node) ==
    CASE node.k = "name" -> bindName(st, cur, node)
      [] node.k = "mapnode" ->
           With(bindEntries(st, cur, node.Entries, 1), LAMBDA r :
             Walked(r.st, [node EXCEPT !.Entries = r.v]))
      [] node.k = "listnode" ->
           With(bindExprs(st, cur, node.Exprs, 1), LAMBDA r :
             Walked(r.st, [node EXCEPT !.Exprs = r.v]))
      [] OTHER -> Walked(st, node)

bindExprs(st, cur, exprs, i) ==
    IF i > Len(exprs) THEN Walked(st, exprs)
    ELSE With(bindExpr(st, cur, exprs[i]), LAMBDA r :
           bindExprs(r.st, cur, [exprs EXCEPT ![i] = r.v], i + 1))

bindEntries(st, cur, entries, i) ==
    IF i > Len(entries) THEN Walked(st, entries)
    ELSE With(bindExpr(st, cur, entries[i].Key), LAMBDA rk :
           With(bindExpr(rk.st, cur, entries[i].Value), LAMBDA rv :
             bindEntries(rv.st, cur, [entries EXCEPT ![i] = MapNodeEntry(rk.v, rv.v)],
                         i + 1)))

\* bindNamesInNode on an optional expression (an extends reference, a default value)
bindOptExpr(st, cur, opt) ==
    IF opt = None THEN Walked(st, None)
    ELSE With(bindExpr(st, cur, opt[1]), LAMBDA r : Walked(r.st, Some(r.v)))

RECURSIVE bindArgs(_, _, _, _)
bindArgs(st, cur, args, i) ==
    IF i > Len(args) THEN Walked(st, args)
    ELSE With(bindType(st, cur, args[i].Type), LAMBDA r :
           bindArgs(r.st, cur, [args EXCEPT ![i].Type = r.v], i + 1))

RECURSIVE bindMethods(_, _, _, _)
bindMethods(st, cur, methods, i) ==
    IF i > Len(methods) THEN Walked(st, methods)
    ELSE With(bindType(st, cur, methods[i].ReturnType), LAMBDA rr :
           With(bindArgs(rr.st, cur, methods[i].Args, 1), LAMBDA ra :
             With(bindArgs(ra.st, cur, methods[i].Throws, 1), LAMBDA rt :
               bindMethods(rt.st, cur,
                           [methods EXCEPT ![i].ReturnType = rr.v, ![i].Args = ra.v,
                                           ![i].Throws = rt.v],
                           i + 1))))

RECURSIVE bindFields(_, _, _, _)
bindFields(st, cur, fields, i) ==
    IF i > Len(fields) THEN Walked(st, fields)
    ELSE With(bindType(st, cur, fields[i].Type), LAMBDA rt :
           With(bindOptExpr(rt.st, cur, fields[i].Default), LAMBDA rd :
             bindFields(rd.st, cur, [fields EXCEPT ![i].Type = rt.v, ![i].Default = rd.v],
                        i + 1)))

\* bindNamesInNode on the top-level node n of tree cur
bindNamesInNode(st, cur, n) ==
    CASE st.trees[cur].Nodes[n].k = "typedef" ->
           With(bindType(st, cur, st.trees[cur].Nodes[n].Type), LAMBDA r :
             [r.st EXCEPT !.trees[cur].Nodes[n].Type = r.v])
      [] st.trees[cur].Nodes[n].k = "const" ->
           With(bindType(st, cur, st.trees[cur].Nodes[n].Type), LAMBDA rt :
             With(bindExpr(rt.st, cur, st.trees[cur].Nodes[n].Init), LAMBDA ri :
               [ri.st EXCEPT !.trees[cur].Nodes[n].Type = rt.v,
                             !.trees[cur].Nodes[n].Init = ri.v]))
      [] st.trees[cur].Nodes[n].k = "service" ->
           With(bindOptExpr(st, cur, st.trees[cur].Nodes[n].Extends), LAMBDA re :
             With(bindMethods(re.st, cur, st.trees[cur].Nodes[n].Methods, 1), LAMBDA rm :
               [rm.st EXCEPT !.trees[cur].Nodes[n].Extends = re.v,
                             !.trees[cur].Nodes[n].Methods = rm.v]))
      [] st.trees[cur].Nodes[n].k = "struct" ->
           With(bindFields(st, cur, st.trees[cur].Nodes[n].Fields, 1), LAMBDA r :
             [r.st EXCEPT !.trees[cur].Nodes[n].Fields = r.v])
      [] OTHER -> st

RECURSIVE bind(_, _, _)
bind(st, cur, n) ==
    IF n > Len(st.trees[cur].Nodes) THEN st
    ELSE bind(bindNamesInNode(st, cur, n), cur, n + 1)

bindNames(st, t) == PhaseResult(bind(st, t, 1), "returned")

----------------------------------------------------------------------------
(* Phase 5: check unused includes (sema/check_unused.go) *)

\* the names of the includes of the tree that are not in its UsedIncludes
unusedIncludes(tree) == {name \in DOMAIN tree.Includes : name \notin tree.UsedIncludes}

\* Go ranges over the include map in no fixed order: the model reports the unused
\* includes in the order CHOOSE fixes, and the claims read the set of the diagnostics
RECURSIVE reportUnused(_, _, _)
reportUnused(ctx, tree, names) ==
    IF names = {} THEN ctx
    ELSE With(CHOOSE x \in names : TRUE, LAMBDA name :
           reportUnused(ReportError(ctx, tree.Includes[name].Tok.Loc, "include is unused",
                                    StringLiteral(tree.Includes[name].Tok), 0),
                        tree, names \ {name}))

checkUnused(st, t) ==
    PhaseResult([st EXCEPT !.ctx = reportUnused(@, st.trees[t], unusedIncludes(st.trees[t]))],
                "returned")

----------------------------------------------------------------------------
(* Phase 3: type checking (sema/type_checking.go) *)

\* Type.Resolve: peel the typedefs away; the type reached and, for a name, its binding
RECURSIVE Resolve(_, _)
Resolve(ts, ttype) ==
    IF ttype.k = "name"
    THEN IF ttype.Binding # None /\ Deref(ts, ttype.Binding[1]).k = "typedef"
         THEN Resolve(ts, Deref(ts, ttype.Binding[1]).Type)
         ELSE [Type |-> ttype, Binding |-> ttype.Binding]
    ELSE [Type |-> ttype, Binding |-> None]

\* the kind of the node a binding designates, "nil" for no binding
BindingKind(ts, binding) == IF binding = None THEN "nil" ELSE Deref(ts, binding[1]).k

\* &ValueNode{node, kind, value}
ValueNode(node, kind, value) == [k |-> "value", Node |-> node, Kind |-> kind, Value |-> value]

\* a nil *ValueNode stored in a Node interface: the interface is not nil
NilValueNode == [k |-> "value", Node |-> None, Kind |-> "nil", Value |-> None]

\* the *ValueNode v (None for nil) as the Node it is assigned to
AsNode(v) == IF v = None THEN NilValueNode ELSE v[1]

\* the result of a check: the context and the value (None for a nil *ValueNode)
Checked(ctx, v) == [ctx |-> ctx, v |-> v]

\* a check that fails: the error is reported and nil returned
Rejected(ctx, pos, msg, name) == Checked(ReportError(ctx, pos, msg, name, 0), None)

\* the result of affirmType: the context and the verdict
Affirmed(ctx, ok) == [ctx |-> ctx, ok |-> ok]

isNodeATypeDeclaration(ts, binding) == BindingKind(ts, binding) \in {"struct", "typedef", "enum"}

RECURSIVE affirmType(_, _, _)
affirmType(ts, ctx, ttype) ==
    CASE ttype.k = "builtin" -> Affirmed(ctx, TRUE)
      [] ttype.k = "name" ->
           IF isNodeATypeDeclaration(ts, ttype.Binding) /\ Len(ttype.Tail) = 0
           THEN Affirmed(ctx, TRUE)
           ELSE Affirmed(ReportError(ctx, NodeLoc(ttype), "does not resolve to a type",
                                     Identifier(ttype.Path[1]), 0), FALSE)
      [] ttype.k = "list" -> affirmType(ts, ctx, ttype.Inner)
      [] ttype.k = "map" ->
           With(affirmType(ts, ctx, ttype.Key), LAMBDA rk :
             IF rk.ok THEN affirmType(ts, rk.ctx, ttype.Value) ELSE Affirmed(rk.ctx, FALSE))

\* toI32 without the comparison: the converted value, whatever the literal
toI32Unchecked(ctx, lit) == [ctx |-> ctx, v |-> ToInt32(IntLiteral(lit)), ok |-> TRUE]

\* the result of toI32: the context, the int32 and the verdict
toI32(ctx, lit) ==
    IF ToInt32(IntLiteral(lit)) = IntLiteral(lit)
    THEN [ctx |-> ctx, v |-> ToInt32(IntLiteral(lit)), ok |-> TRUE]
    ELSE [ctx |-> ReportError(ctx, lit.Loc, "does not fit in a 32-bit integer", "", 0),
          v |-> 0, ok |-> FALSE]

checkBuiltinType(ctx, ttype, value) ==
    IF value.k # "literal"
    THEN Rejected(ctx, NodeLoc(value), "cannot coerce node", NodeType(value))
    ELSE CASE ttype.Tok.Kind = "TOK_BOOL" /\ value.Lit.Kind = "TOK_TRUE" ->
                Checked(ctx, Some(ValueNode(value, "TOK_BOOL", TRUE)))
           [] ttype.Tok.Kind = "TOK_BOOL" /\ value.Lit.Kind = "TOK_FALSE" ->
                Checked(ctx, Some(ValueNode(value, "TOK_BOOL", FALSE)))
           [] ttype.Tok.Kind = "TOK_I32" /\ value.Lit.Kind = "TOK_LITERAL_INT" ->
                With(toI32(ctx, value.Lit), LAMBDA r :
                  IF ~r.ok THEN Checked(r.ctx, None)
                  ELSE Checked(r.ctx, Some(ValueNode(value, "TOK_I32", r.v))))
           [] ttype.Tok.Kind = "TOK_I64" /\ value.Lit.Kind = "TOK_LITERAL_INT" ->
                Checked(ctx, Some(ValueNode(value, "TOK_I64", IntLiteral(value.Lit))))
           [] ttype.Tok.Kind = "TOK_STRING" /\ value.Lit.Kind = "TOK_LITERAL_STRING" ->
                Checked(ctx, Some(ValueNode(value, "TOK_STRING", StringLiteral(value.Lit))))
           [] OTHER -> Rejected(ctx, value.Lit.Loc, "cannot coerce type", value.Lit.Kind)

\* checkEnumMember without the comparison of the two enums: a member of any enum is
\* accepted
checkEnumMemberOfAny(ts, ctx, enum, value, other) ==
    IF Len(value.Tail) = 0
    THEN Rejected(ctx, NodeLoc(value), "cannot use enum as a value",
                  Identifier(Deref(ts, other).Name))
    ELSE IF Len(value.Tail) > 1
    THEN Rejected(ctx, NodeLoc(value), "is not a member of enum",
                  Identifier(Deref(ts, other).Name))
    ELSE IF Identifier(value.Tail[1]) \notin DOMAIN Deref(ts, other).Names
    THEN Rejected(ctx, value.Tail[1].Loc, "is not a member of enum",
                  Identifier(Deref(ts, other).Name))
    ELSE Checked(ctx, Some(ValueNode(value, "TOK_ENUM",
                                     [Enum |-> other,
                                      Entry |-> Deref(ts, other).Names[
                                                  Identifier(value.Tail[1])]])))

\* the checks of checkEnumType once the value is a name bound to the enum other
checkEnumMember(ts, ctx, enum, value, other) ==
    IF Len(value.Tail) = 0
    THEN \* Check that we're not trying to use an enum definition as a value.
         Rejected(ctx, NodeLoc(value), "cannot use enum as a value",
                  Identifier(Deref(ts, other).Name))
    ELSE IF Len(value.Tail) > 1
    THEN \* Check that we're not trying to access members of enum fields.
         Rejected(ctx, NodeLoc(value), "is not a member of enum",
                  Identifier(Deref(ts, other).Name))
    ELSE IF Identifier(value.Tail[1]) \notin DOMAIN Deref(ts, other).Names
    THEN Rejected(ctx, value.Tail[1].Loc, "is not a member of enum",
                  Identifier(Deref(ts, other).Name))
    ELSE IF other # enum
    THEN \* Make sure it's the same enum.
         Rejected(ctx, NodeLoc(value), "cannot coerce enum to enum",
                  Identifier(Deref(ts, other).Name))
    ELSE Checked(ctx, Some(ValueNode(value, "TOK_ENUM",
                                     [Enum |-> other,
                                      Entry |-> Deref(ts, other).Names[
                                                  Identifier(value.Tail[1])]])))

checkEnumType(ts, ctx, enum, inValue) ==
    IF inValue.k # "name"
    THEN Rejected(ctx, NodeLoc(inValue), "value is not a member of enum",
                  Identifier(Deref(ts, enum).Name))
    ELSE IF BindingKind(ts, inValue.Binding) # "enum"
    THEN Rejected(ctx, NodeLoc(inValue), "value is not a member of enum",
                  Identifier(Deref(ts, enum).Name))
    ELSE checkEnumMember(ts, ctx, enum, inValue, inValue.Binding[1])

\* Warn about any required fields that are not present.
RECURSIVE checkRequiredFields(_, _, _, _, _)
checkRequiredFields(ctx, tstruct, value, init, i) ==
    IF i > Len(tstruct.Fields) THEN ctx
    ELSE IF tstruct.Fields[i].Spec # None /\ tstruct.Fields[i].Spec[1].Kind # "TOK_REQUIRED"
    THEN checkRequiredFields(ctx, tstruct, value, init, i + 1)
    ELSE IF tstruct.Fields[i].Default # None
    THEN checkRequiredFields(ctx, tstruct, value, init, i + 1)
    ELSE IF i \notin DOMAIN init
    THEN checkRequiredFields(
           ReportError(ctx, NodeLoc(value), "required field is not initialized",
                       Identifier(tstruct.Fields[i].Name), 0),
           tstruct, value, init, i + 1)
    ELSE checkRequiredFields(ctx, tstruct, value, init, i + 1)

RECURSIVE checkType(_, _, _, _)
RECURSIVE checkListExprs(_, _, _, _, _, _)
RECURSIVE checkMapEntries(_, _, _, _, _, _)
RECURSIVE checkStructEntries(_, _, _, _, _, _)

\* the loop of checkListType over list.Exprs; values is list.Values so far
checkListExprs(ts, ctx, ttype, list, i, values) ==
    IF i > Len(list.Exprs)
    THEN Checked(ctx, Some(ValueNode(list, "TOK_LIST", values)))
    ELSE With(checkType(ts, ctx, ttype.Inner, list.Exprs[i]), LAMBDA r :
           IF r.v = None THEN Checked(r.ctx, None)
           ELSE checkListExprs(ts, r.ctx, ttype, list, i + 1, Append(values, r.v[1])))

checkListType(ts, ctx, ttype, value) ==
    IF value.k # "listnode"
    THEN Rejected(ctx, NodeLoc(value), "cannot coerce to a list", NodeType(value))
    ELSE checkListExprs(ts, ctx, ttype, value, 1, <<>>)

\* the loop of checkMapType over tmap.Entries; vals holds the KeyVal/ValueVal pairs so far
checkMapEntries(ts, ctx, ttype, tmap, i, vals) ==
    IF i > Len(tmap.Entries)
    THEN Checked(ctx, Some(ValueNode(tmap, "TOK_MAP", vals)))
    ELSE With(checkType(ts, ctx, ttype.Key, tmap.Entries[i].Key), LAMBDA rk :
           IF rk.v = None THEN Checked(rk.ctx, None)
           ELSE With(checkType(ts, rk.ctx, ttype.Value, tmap.Entries[i].Value), LAMBDA rv :
                  IF rv.v = None THEN Checked(rv.ctx, None)
                  ELSE checkMapEntries(ts, rv.ctx, ttype, tmap, i + 1,
                                       Append(vals, [KeyVal |-> rk.v[1],
                                                     ValueVal |-> rv.v[1]]))))

checkMapType(ts, ctx, ttype, value) ==
    IF value.k # "mapnode"
    THEN Rejected(ctx, NodeLoc(value), "cannot coerce to a map", NodeType(value))
    ELSE checkMapEntries(ts, ctx, ttype, value, 1, <<>>)

\* the first loop of checkStructType; init maps a field (its index) to its value
checkStructEntries(ts, ctx, tstruct, value, i, init) ==
    IF i > Len(value.Entries)
    THEN Checked(checkRequiredFields(ctx, tstruct, value, init, 1),
                 Some(ValueNode(value, "TOK_STRUCT", init)))
    ELSE IF value.Entries[i].Key.k # "literal"
            \/ value.Entries[i].Key.Lit.Kind # "TOK_LITERAL_STRING"
    THEN Rejected(ctx, NodeLoc(value.Entries[i].Key), "expected a string literal", "")
    ELSE IF StringLiteral(value.Entries[i].Key.Lit) \notin DOMAIN tstruct.Names
    THEN Rejected(ctx, NodeLoc(value.Entries[i].Key), "field not found in struct",
                  StringLiteral(value.Entries[i].Key.Lit))
    ELSE With(tstruct.Names[StringLiteral(value.Entries[i].Key.Lit)], LAMBDA field :
           With(checkType(ts, ctx, tstruct.Fields[field].Type, value.Entries[i].Value),
                LAMBDA r :
             IF r.v = None THEN Checked(r.ctx, None)
             ELSE checkStructEntries(ts, r.ctx, tstruct, value, i + 1,
                                     MapPut(init, field, r.v[1]))))

checkStructType(ts, ctx, tstruct, inValue) ==
    IF inValue.k # "mapnode"
    THEN Rejected(ctx, NodeLoc(inValue), "value should be a struct initializer", "")
    ELSE checkStructEntries(ts, ctx, Deref(ts, tstruct), inValue, 1, EmptyMap)

\* checkType once the typedefs are peeled away
checkResolvedType(ts, ctx, ttype, value) ==
    CASE ttype.k = "builtin" -> checkBuiltinType(ctx, ttype, value)
      [] ttype.k = "list" -> checkListType(ts, ctx, ttype, value)
      [] ttype.k = "map" -> checkMapType(ts, ctx, ttype, value)
      [] ttype.k = "name" ->
           IF BindingKind(ts, ttype.Binding) = "enum"
           THEN checkEnumType(ts, ctx, ttype.Binding[1], value)
           ELSE IF BindingKind(ts, ttype.Binding) = "struct"
           THEN checkStructType(ts, ctx, ttype.Binding[1], value)
           ELSE Rejected(ctx, NodeLoc(ttype), "cannot use type here",
                         Identifier(ttype.Path[1]))

\* Check that the value node can be assigned to the given type.
checkType(ts, ctx, ttype, value) == checkResolvedType(ts, ctx, Resolve(ts, ttype).Type, value)

\* checkNotVoid once the typedefs are peeled away
checkResolvedNotVoid(ctx, ttype) ==
    IF ttype.k = "builtin" /\ ttype.Tok.Kind = "TOK_VOID"
    THEN ReportError(ctx, ttype.Tok.Loc, "void can only be used as a return type", "", 0)
    ELSE ctx

checkNotVoid(ts, ctx, ttype) == checkResolvedNotVoid(ctx, Resolve(ts, ttype).Type)

\* the result of an order check: the context and the map of the order numbers seen
Ordered(ctx, orders) == [ctx |-> ctx, orders |-> orders]

\* checkOrderPositive that lets the order number 0 through
checkOrderNegative(ctx, item, order) ==
    IF order < 0
    THEN ReportError(ctx, item.Order[1].Loc, "must be greater than 0",
                     Identifier(item.Name), 0)
    ELSE ctx

\* The order cannot be a negative number.
checkOrderPositive(ctx, item, order) ==
    IF order <= 0
    THEN ReportError(ctx, item.Order[1].Loc, "must be greater than 0",
                     Identifier(item.Name), 0)
    ELSE ctx

\* Check that the order number has not already been seen.  items are the fields of the
\* struct or the arguments of the list, orders maps an order number to the (index of
\* the) first of them that has it
checkOrderSeen(ctx, items, i, orders, order) ==
    IF order \in DOMAIN orders
    THEN Ordered(checkOrderPositive(
                   ReportError(ctx, items[i].Order[1].Loc, "has the same ordering",
                               Identifier(items[i].Name), items[orders[order]].Name.Loc),
                   items[i], order),
                 orders)
    ELSE Ordered(checkOrderPositive(ctx, items[i], order), MapPut(orders, order, i))

\* the order checks of checkStruct on field i
checkFieldOrder(ctx, fields, i, orders) ==
    IF fields[i].Order = None
    THEN Ordered(ReportError(ctx, fields[i].Name.Loc, "should have an explicit order",
                             Identifier(fields[i].Name), 0), orders)
    ELSE With(toI32(ctx, fields[i].Order[1]), LAMBDA r :
           IF ~r.ok THEN Ordered(r.ctx, orders)
           ELSE checkOrderSeen(r.ctx, fields, i, orders, r.v))

\* field.Default = this.checkType(field.Type, field.Default), when there is a default
checkFieldDefault(st, t, n, i) ==
    IF st.trees[t].Nodes[n].Fields[i].Default = None THEN st
    ELSE With(checkType(st.trees, st.ctx, st.trees[t].Nodes[n].Fields[i].Type,
                        st.trees[t].Nodes[n].Fields[i].Default[1]), LAMBDA r :
           State([st.trees EXCEPT ![t].Nodes[n].Fields[i].Default = Some(AsNode(r.v))],
                 r.ctx))

RECURSIVE checkStructFields(_, _, _, _, _)
checkStructFields(st, t, n, i, orders) ==
    IF i > Len(st.trees[t].Nodes[n].Fields) THEN st
    ELSE With(checkFieldOrder(st.ctx, st.trees[t].Nodes[n].Fields, i, orders), LAMBDA ro :
           checkStructFields(
             checkFieldDefault(
               State(st.trees,
                     checkNotVoid(st.trees,
                                  affirmType(st.trees, ro.ctx,
                                             st.trees[t].Nodes[n].Fields[i].Type).ctx,
                                  st.trees[t].Nodes[n].Fields[i].Type)),
               t, n, i),
             t, n, i + 1, ro.orders))

checkStruct(st, t, n) == checkStructFields(st, t, n, 1, EmptyMap)

RECURSIVE checkOrderingArgs(_, _, _, _)
checkOrderingArgs(ctx, args, i, orders) ==
    IF i > Len(args) THEN ctx
    ELSE IF args[i].Order = None
    THEN checkOrderingArgs(
           ReportError(ctx, args[i].Name.Loc, "should have an explicit order",
                       Identifier(args[i].Name), 0),
           args, i + 1, orders)
    ELSE With(toI32(ctx, args[i].Order[1]), LAMBDA r :
           IF ~r.ok THEN checkOrderingArgs(r.ctx, args, i + 1, orders)
           ELSE With(checkOrderSeen(r.ctx, args, i, orders, r.v), LAMBDA ro :
                  checkOrderingArgs(ro.ctx, args, i + 1, ro.orders)))

checkOrdering(ctx, args) == checkOrderingArgs(ctx, args, 1, EmptyMap)

\* Check argument types.
RECURSIVE checkArgTypes(_, _, _, _)
checkArgTypes(ts, ctx, args, i) ==
    IF i > Len(args) THEN ctx
    ELSE checkArgTypes(ts,
                       checkNotVoid(ts, affirmType(ts, ctx, args[i].Type).ctx, args[i].Type),
                       args, i + 1)

\* the checks on a throws type that affirmType accepted: it must resolve to an exception
checkIsException(ts, ctx, res) ==
    IF res.Binding = None
    THEN ReportError(ctx, NodeLoc(res.Type), "expected an exception, but got type", "", 0)
    ELSE IF BindingKind(ts, res.Binding) # "struct"
            \/ Deref(ts, res.Binding[1]).Tok.Kind # "TOK_EXCEPTION"
    THEN ReportError(ctx, NodeLoc(res.Type), "expected an exception, but got a",
                     NodeType(Deref(ts, res.Binding[1])), 0)
    ELSE ctx

\* Check exception types.
RECURSIVE checkThrowsTypes(_, _, _, _)
checkThrowsTypes(ts, ctx, throws, i) ==
    IF i > Len(throws) THEN ctx
    ELSE With(affirmType(ts, ctx, throws[i].Type), LAMBDA ra :
           IF ~ra.ok THEN checkThrowsTypes(ts, ra.ctx, throws, i + 1)
           ELSE checkThrowsTypes(ts, checkIsException(ts, ra.ctx, Resolve(ts, throws[i].Type)),
                                 throws, i + 1))

\* Check method signatures.
RECURSIVE checkMethods(_, _, _, _)
checkMethods(ts, ctx, methods, i) ==
    IF i > Len(methods) THEN ctx
    ELSE checkMethods(
           ts,
           checkOrdering(
             checkThrowsTypes(
               ts,
               checkOrdering(
                 checkArgTypes(ts, affirmType(ts, ctx, methods[i].ReturnType).ctx,
                               methods[i].Args, 1),
                 methods[i].Args),
               methods[i].Throws, 1),
             methods[i].Throws),
           methods, i + 1)

\* The inherited node must be a service node.
\* checkExtends that only rejects extra components in the path
checkExtendsTail(ts, ctx, node) ==
    IF node.Extends # None /\ Len(node.Extends[1].Tail) > 0
    THEN ReportError(ctx, NodeLoc(node), "must be a service definition",
                     Identifier(node.Extends[1].Path[1]), 0)
    ELSE ctx

checkExtends(ts, ctx, node) ==
    IF node.Extends # None
       /\ (BindingKind(ts, node.Extends[1].Binding) # "service"
           \/ Len(node.Extends[1].Tail) > 0)
    THEN ReportError(ctx, NodeLoc(node), "must be a service definition",
                     Identifier(node.Extends[1].Path[1]), 0)
    ELSE ctx

checkService(st, t, n) ==
    State(st.trees,
          checkMethods(st.trees, checkExtends(st.trees, st.ctx, st.trees[t].Nodes[n]),
                       st.trees[t].Nodes[n].Methods, 1))

\* node.Init = this.checkType(node.Type, node.Init)
checkConstInit(st, t, n) ==
    With(checkType(st.trees, st.ctx, st.trees[t].Nodes[n].Type, st.trees[t].Nodes[n].Init),
         LAMBDA r : State([st.trees EXCEPT ![t].Nodes[n].Init = AsNode(r.v)], r.ctx))

checkNode(st, t, n) ==
    CASE st.trees[t].Nodes[n].k = "typedef" ->
           State(st.trees, affirmType(st.trees, st.ctx, st.trees[t].Nodes[n].Type).ctx)
      [] st.trees[t].Nodes[n].k = "const" ->
           checkConstInit(
             State(st.trees, affirmType(st.trees, st.ctx, st.trees[t].Nodes[n].Type).ctx),
             t, n)
      [] st.trees[t].Nodes[n].k = "struct" -> checkStruct(st, t, n)
      [] st.trees[t].Nodes[n].k = "service" -> checkService(st, t, n)
      [] OTHER -> st

RECURSIVE checkNodes(_, _, _)
checkNodes(st, t, n) ==
    IF n > Len(st.trees[t].Nodes) THEN st
    ELSE checkNodes(checkNode(st, t, n), t, n + 1)

typeCheck(st, t) == PhaseResult(checkNodes(st, t, 1), "returned")

----------------------------------------------------------------------------
(* Phase 4: cyclic checks (sema/cyclic_checks.go) *)

\* findNestedType returns true ("found") or false ("no"), or never returns: the search
\* keeps no record of the structs it has seen, so when it comes to a struct whose fields
\* it is searching already (stack), it repeats that search within itself without end and
\* the goroutine's stack overflows ("overflow")
RECURSIVE findNestedType(_, _, _, _)
RECURSIVE findNestedFields(_, _, _, _, _)

\* findNestedType once the typedefs are peeled away
findNestedResolved(ts, res, target, stack) ==
    CASE res.Type.k = "list" -> findNestedType(ts, res.Type.Inner, target, stack)
      [] res.Type.k = "map" ->
           With(findNestedType(ts, res.Type.Key, target, stack), LAMBDA rk :
             IF rk # "no" THEN rk ELSE findNestedType(ts, res.Type.Value, target, stack))
      [] res.Type.k = "name" ->
           IF BindingKind(ts, res.Binding) # "struct" THEN "no"
           ELSE IF res.Binding[1] = target THEN "found"
           ELSE IF res.Binding[1] \in stack THEN "overflow"
           ELSE findNestedFields(ts, Deref(ts, res.Binding[1]).Fields, 1, target,
                                 stack \cup {res.Binding[1]})
      [] OTHER -> "no"

findNestedType(ts, ttype, target, stack) ==
    findNestedResolved(ts, Resolve(ts, ttype), target, stack)

\* Search the struct's fields
findNestedFields(ts, fields, i, target, stack) ==
    IF i > Len(fields) THEN "no"
    ELSE With(findNestedType(ts, fields[i].Type, target, stack), LAMBDA r :
           IF r # "no" THEN r ELSE findNestedFields(ts, fields, i + 1, target, stack))

\* the result of a check on one node: the context and how the check ended
Ended(ctx, end) == [ctx |-> ctx, end |-> end]

\* the loop of checkCyclicStruct over the fields of the struct node
RECURSIVE checkCyclicFields(_, _, _, _)
checkCyclicFields(ts, ctx, node, i) ==
    IF i > Len(Deref(ts, node).Fields) THEN Ended(ctx, "returned")
    ELSE With(findNestedType(ts, Deref(ts, node).Fields[i].Type, node, {}), LAMBDA r :
           CASE r = "found" ->
                  Ended(ReportError(ctx, Deref(ts, node).Fields[i].Name.Loc,
                                    "introduces a cyclic reference",
                                    Identifier(Deref(ts, node).Fields[i].Name),
                                    Deref(ts, node).Name.Loc),
                        "returned")
             [] r = "overflow" -> Ended(ctx, "overflow")
             [] OTHER -> checkCyclicFields(ts, ctx, node, i + 1))

checkCyclicStruct(ts, ctx, node) == checkCyclicFields(ts, ctx, node, 1)

\* the loop of checkCyclicService: binding is the binding the parent is taken from, seen
\* the services the walk has left.  The conversion Binding.(*ServiceNode) panics when the
\* binding is no service; a walk that comes back to a service other than node never ends
RECURSIVE walkExtends(_, _, _, _, _)
walkExtends(ts, ctx, node, binding, seen) ==
    IF BindingKind(ts, binding) # "service" THEN Ended(ctx, "panic")
    ELSE IF binding[1] = node
    THEN Ended(ReportError(ctx, NodeLoc(Deref(ts, node).Extends[1]),
                           "service extension is cyclic",
                           Identifier(Deref(ts, node).Name), 0), "returned")
    ELSE IF Deref(ts, binding[1]).Extends = None
    THEN \* Chain stops - exit with no error.
         Ended(ctx, "returned")
    ELSE IF binding[1] \in seen THEN Ended(ctx, "hung")
    ELSE walkExtends(ts, ctx, node, Deref(ts, binding[1]).Extends[1].Binding,
                     seen \cup {binding[1]})

checkCyclicService(ts, ctx, node) ==
    IF Deref(ts, node).Extends = None THEN Ended(ctx, "returned")
    ELSE walkExtends(ts, ctx, node, Deref(ts, node).Extends[1].Binding, {})

\* the check of one top-level node
checkCyclicNode(ts, ctx, t, n) ==
    CASE ts[t].Nodes[n].k = "struct" -> checkCyclicStruct(ts, ctx, [T |-> t, N |-> n])
      [] ts[t].Nodes[n].k = "service" -> checkCyclicService(ts, ctx, [T |-> t, N |-> n])
      [] OTHER -> Ended(ctx, "returned")

\* CyclicChecker.check: the loop over the nodes of tree t stops where a check never returns
RECURSIVE cyclicCheckNodes(_, _, _, _)
cyclicCheckNodes(ts, ctx, t, n) ==
    IF n > Len(ts[t].Nodes) THEN Ended(ctx, "returned")
    ELSE With(checkCyclicNode(ts, ctx, t, n), LAMBDA r :
           IF r.end # "returned" THEN r ELSE cyclicCheckNodes(ts, r.ctx, t, n + 1))

cyclicCheck(st, t) ==
    With(cyclicCheckNodes(st.trees, st.ctx, t, 1), LAMBDA r :
      PhaseResult(State(st.trees, r.ctx), r.end))

----------------------------------------------------------------------------
(* The phase driver (sema/phases.go) *)

\* the phase list with bind-names and type-check exchanged
compilePhasesExchanged ==
    <<"enterSymbols", "typeCheck", "bindNames", "cyclicCheck", "checkUnused">>

compilePhases == <<"enterSymbols", "bindNames", "typeCheck", "cyclicCheck", "checkUnused">>

\* the phase callback p applied to tree t
callPhase(p, st, t) ==
    CASE compilePhases[p] = "enterSymbols" -> enterSymbols(st, t)
      [] compilePhases[p] = "bindNames" -> bindNames(st, t)
      [] compilePhases[p] = "typeCheck" -> typeCheck(st, t)
      [] compilePhases[p] = "cyclicCheck" -> cyclicCheck(st, t)
      [] compilePhases[p] = "checkUnused" -> checkUnused(st, t)

\* the deferred context.Leave() runs when the phase returns or panics, not when the
\* phase never returns
leaveDeferred(r) ==
    IF r.end \in {"returned", "panic"} THEN [r EXCEPT !.st.ctx = Leave(@)] ELSE r

\* runPhase with a verdict that only looks at the diagnostics the invocation added
runPhaseOwnErrors(ctx, ts, p, t) ==
    IF EnterPanics(ctx) THEN PhaseResult(State(ts, ctx), "panic")
    ELSE With(leaveDeferred(callPhase(p, State(ts, Enter(ctx, ts[t].Path)), t)), LAMBDA r :
           [r EXCEPT !.ok = Len(r.st.ctx.Errors) = Len(ctx.Errors)])

\* context.Enter(tree.Path); defer context.Leave(); return phase(context, tree)
\* (when Enter panics, Leave is not deferred yet and the phase is not called)
runPhase(ctx, ts, p, t) ==
    IF EnterPanics(ctx) THEN PhaseResult(State(ts, ctx), "panic")
    ELSE leaveDeferred(callPhase(p, State(ts, Enter(ctx, ts[t].Path)), t))

\* the inner loop of runPhases with the verdict of the phase ignored: every phase is
\* run on every tree
loopStepIgnoring(r) ==
    /\ trees' = r.st.trees
    /\ context' = r.st.ctx
    /\ calls' = Append(calls, [phase |-> compilePhases[phase], tree |-> treeIdx,
                                errors |-> Len(r.st.ctx.Errors)])
    /\ IF treeIdx < Len(trees)
       THEN treeIdx' = treeIdx + 1 /\ phase' = phase
       ELSE treeIdx' = 1 /\ phase' = phase + 1
    /\ UNCHANGED <<pc, result>>

\* the inner loop of runPhases with the verdict looked at after the last tree only: a
\* phase is run on every tree before the driver returns false
loopStepWholePhase(r) ==
    /\ trees' = r.st.trees
    /\ context' = r.st.ctx
    /\ calls' = Append(calls, [phase |-> compilePhases[phase], tree |-> treeIdx,
                                errors |-> Len(r.st.ctx.Errors)])
    /\ IF treeIdx < Len(trees)
       THEN /\ treeIdx' = treeIdx + 1
            /\ UNCHANGED <<phase, pc, result>>
       ELSE IF ~r.ok
       THEN /\ pc' = "done"
            /\ result' = "false"
            /\ UNCHANGED <<phase, treeIdx>>
       ELSE /\ treeIdx' = 1
            /\ phase' = phase + 1
            /\ UNCHANGED <<pc, result>>

\* what the inner loop of runPhases does with the result r of runPhase
\* (calls is the history of the invocations: the phase, the tree, and the number of
\* diagnostics in the context when the invocation ended)
loopStep(r) ==
    /\ trees' = r.st.trees
    /\ context' = r.st.ctx
    /\ calls' = Append(calls, [phase |-> compilePhases[phase], tree |-> treeIdx,
                                errors |-> Len(r.st.ctx.Errors)])
    /\ IF r.end # "returned"
       THEN \* the call never returns, or the panic ends the process
            /\ pc' = r.end
            /\ UNCHANGED <<phase, treeIdx, result>>
       ELSE IF ~r.ok
       THEN \* return false
            /\ pc' = "done"
            /\ result' = "false"
            /\ UNCHANGED <<phase, treeIdx>>
       ELSE \* the next tree, or the first tree of the next phase
            /\ IF treeIdx < Len(trees)
               THEN treeIdx' = treeIdx + 1 /\ phase' = phase
               ELSE treeIdx' = 1 /\ phase' = phase + 1
            /\ UNCHANGED <<pc, result>>

\* one turn of the inner loop of runPhases: phase p is run on the tree treeIdx
RunPhaseOnTree(p) ==
    /\ pc = "running"
    /\ phase = p
    /\ phase <= Len(compilePhases)
    /\ treeIdx <= Len(trees)
    /\ loopStep(runPhase(context, trees, phase, treeIdx))
    /\ UNCHANGED <<poolVars, socketVars>>

\* the turns of the loop, one action for each entry of compilePhases
RunEnterSymbols == phase = 1 /\ RunPhaseOnTree(1)
RunBindNames == phase = 2 /\ RunPhaseOnTree(2)
RunTypeCheck == phase = 3 /\ RunPhaseOnTree(3)
RunCyclicCheck == phase = 4 /\ RunPhaseOnTree(4)
RunCheckUnused == phase = 5 /\ RunPhaseOnTree(5)

\* the loops of runPhases are over: return true
AnalyzeReturnsTrue ==
    /\ pc = "running"
    /\ (phase > Len(compilePhases) \/ Len(trees) = 0)
    /\ pc' = "done"
    /\ result' = "true"
    /\ UNCHANGED <<trees, context, phase, treeIdx, calls>>
    /\ UNCHANGED <<poolVars, socketVars>>

Next ==
    \/ RunEnterSymbols
    \/ RunBindNames
    \/ RunTypeCheck
    \/ RunCyclicCheck
    \/ RunCheckUnused
    \/ AnalyzeReturnsTrue

\* no socket pool is in use
NoPool ==
    /\ pool = <<>>
    /\ saps = <<>>
    /\ held = {}
    /\ goroutines = <<>>
    /\ poolLog = <<>>

\* no socket is in use
NoSocket ==
    /\ socket = <<>>
    /\ stores = <<>>
    /\ conns = <<>>
    /\ returned = <<>>

\* the state Analyze starts in on the program ts, with a new compile context
InitOn(ts) ==
    /\ NoPool
    /\ NoSocket
    /\ trees = ts
    /\ context = NewCompileContext
    /\ phase = 1
    /\ treeIdx = 1
    /\ pc = "running"
    /\ result = "none"
    /\ calls = <<>>

----------------------------------------------------------------------------
(* The compile context called by a client: Enter, Leave and ReportError are exported *)
(* methods (parser/context.go), and a client may call them between the driver's turns *)

\* the file names a client enters
Files == {"", "a"}

\* the entry of the history for a client's call: tree is 0, which is no tree
ClientCall(op, file, panicked, ctx) ==
    [phase |-> op, tree |-> 0, errors |-> Len(ctx.Errors), file |-> file,
     panicked |-> panicked]

\* the client's calls made so far
ClientCalls == {k \in DOMAIN calls : calls[k].tree = 0}

\* context.Enter(file): the panic ends the process
CallEnter ==
    /\ pc = "running"
    /\ Cardinality(ClientCalls) < MaxCalls
    /\ \E file \in Files :
         IF EnterPanics(context)
         THEN /\ pc' = "panic"
              /\ calls' = Append(calls, ClientCall("Enter", file, TRUE, context))
              /\ UNCHANGED context
         ELSE /\ context' = Enter(context, file)
              /\ calls' = Append(calls, ClientCall("Enter", file, FALSE, context))
              /\ UNCHANGED pc
    /\ UNCHANGED <<trees, phase, treeIdx, result>>
    /\ UNCHANGED <<poolVars, socketVars>>

\* context.Leave()
CallLeave ==
    /\ pc = "running"
    /\ Cardinality(ClientCalls) < MaxCalls
    /\ context' = Leave(context)
    /\ calls' = Append(calls, ClientCall("Leave", "", FALSE, context'))
    /\ UNCHANGED <<trees, phase, treeIdx, pc, result>>
    /\ UNCHANGED <<poolVars, socketVars>>

\* context.ReportError(pos, "...") at line 1
CallReportError ==
    /\ pc = "running"
    /\ Cardinality(ClientCalls) < MaxCalls
    /\ context' = ReportError(context, 1, "reported by the client", "", 0)
    /\ calls' = Append(calls, ClientCall("ReportError", "", FALSE, context'))
    /\ UNCHANGED <<trees, phase, treeIdx, pc, result>>
    /\ UNCHANGED <<poolVars, socketVars>>

\* the driver's turns and the client's calls, in any order
NextContext ==
    \/ CallEnter
    \/ CallLeave
    \/ CallReportError
    \/ RunEnterSymbols
    \/ RunBindNames
    \/ RunTypeCheck
    \/ RunCyclicCheck
    \/ RunCheckUnused
    \/ AnalyzeReturnsTrue

----------------------------------------------------------------------------
(* Analyze called again.  The phases write into the trees (the name maps, the       *)
(* bindings, the values), and a caller that keeps an accepted tree may hand it to   *)
(* Analyze once more, with a new compile context.                                   *)

\* the entry of the history for the second call of Analyze
SecondCall == ClientCall("Analyze", "", FALSE, NewCompileContext)

\* Analyze(NewCompileContext(), tree) on the tree a first call has accepted
AnalyzeAgain ==
    /\ pc = "done"
    /\ result = "true"
    /\ \A k \in DOMAIN calls : calls[k] # SecondCall
    /\ context' = NewCompileContext
    /\ phase' = 1
    /\ treeIdx' = 1
    /\ pc' = "running"
    /\ result' = "none"
    /\ calls' = Append(calls, SecondCall)
    /\ UNCHANGED trees
    /\ UNCHANGED <<poolVars, socketVars>>

\* Analyze, and Analyze once more on what it accepted
NextAgain ==
    \/ RunEnterSymbols
    \/ RunBindNames
    \/ RunTypeCheck
    \/ RunCyclicCheck
    \/ RunCheckUnused
    \/ AnalyzeReturnsTrue
    \/ AnalyzeAgain

----------------------------------------------------------------------------
(* The socket pool (lib/frugal/socket_pool.go).  A connection, a SocketAndProtocol, is *)
(* its index in saps, 0 is nil.  A goroutine takes the pool's lock when it enters     *)
(* getFree, Put or Close and the deferred Unlock releases it when the function        *)
(* returns; what Get does after getFree (ExtendDeadline, factory.Connect) is done     *)
(* without the lock.                                                                  *)

\* NewSocketPool(factory, maxIdle)
NewSocketPool(maxIdle) ==
    [maxIdle |-> maxIdle, connections |-> <<>>, closed |-> FALSE, lock |-> 0]

\* this.lock.Lock() by goroutine g, possible when the lock is free, and Unlock()
Lock(p, g) == [p EXCEPT !.lock = g]
Unlock(p) == [p EXCEPT !.lock = 0]

\* sap.socket.Close()
CloseSocket(ss, sap) == [ss EXCEPT ![sap].closed = TRUE]

\* sap.socket.ExtendDeadline(): the deadline is no part of the model
ExtendDeadline(ss, sap) == ss

\* what getFree returns, and the pool it leaves
Freed(p, tp, err) == [pool |-> p, tp |-> tp, err |-> err]

\* getFree that hands out the connection that has been idle longest
getFreeOldest(p) ==
    IF p.closed THEN Freed(Unlock(p), 0, "ErrPoolClosed")
    ELSE IF Len(p.connections) = 0 THEN Freed(Unlock(p), 0, "")
    ELSE Freed(Unlock([p EXCEPT !.connections = Tail(@)]), p.connections[1], "")

\* getFree that does not look at closed
getFreeOfClosed(p) ==
    IF Len(p.connections) = 0 THEN Freed(Unlock(p), 0, "")
    ELSE Freed(Unlock([p EXCEPT !.connections = SubSeq(@, 1, Len(@) - 1)]),
               p.connections[Len(p.connections)], "")

\* Get a transport and protocol from the cache if one is available (the lock is held)
getFree(p) ==
    IF p.closed THEN Freed(Unlock(p), 0, "ErrPoolClosed")
    ELSE IF Len(p.connections) = 0 THEN Freed(Unlock(p), 0, "")
    ELSE Freed(Unlock([p EXCEPT !.connections = SubSeq(@, 1, Len(@) - 1)]),
               p.connections[Len(p.connections)], "")

\* the pool and the connections a call leaves
Pooled(p, ss) == [pool |-> p, saps |-> ss]

\* Put that does not look at maxIdle
PutUnbounded(p, ss, sap, err) ==
    IF err \/ p.closed THEN Pooled(Unlock(p), CloseSocket(ss, sap))
    ELSE Pooled(Unlock([p EXCEPT !.connections = Append(@, sap)]), ss)

\* Put(sap, err) once the lock is held; err is whether *err != nil
Put(p, ss, sap, err) ==
    IF err \/ p.closed THEN Pooled(Unlock(p), CloseSocket(ss, sap))
    ELSE IF Len(p.connections) >= p.maxIdle THEN Pooled(Unlock(p), CloseSocket(ss, sap))
    ELSE Pooled(Unlock([p EXCEPT !.connections = Append(@, sap)]), ss)

\* the loop of Close over this.connections
RECURSIVE CloseAll(_, _, _)
CloseAll(ss, connections, i) ==
    IF i > Len(connections) THEN ss
    ELSE CloseAll(CloseSocket(ss, connections[i]), connections, i + 1)

\* Close() once the lock is held
Close(p, ss) ==
    Pooled(Unlock([p EXCEPT !.connections = <<>>, !.closed = TRUE]),
           CloseAll(ss, p.connections, 1))

\* a goroutine that is in no call of the pool.  pc is where it is, sap and err are the
\* arguments of its Put or the connection its getFree returned, free is the entry of
\* poolLog in which its getFree is recorded
IdleGoroutine == [pc |-> "idle", sap |-> 0, err |-> FALSE, free |-> 0]

\* the calls made on the pool so far: those that have run under the lock and those
\* that hold it
PoolCalls ==
    Len(poolLog)
    + Cardinality({g \in DOMAIN goroutines :
                     goroutines[g].pc \in {"getFree", "put", "close"}})

\* goroutine g may start a call: it is in none, the lock is free
MayCall(g) ==
    /\ goroutines[g].pc = "idle"
    /\ pool.lock = 0
    /\ PoolCalls < MaxPoolCalls

\* a goroutine calls Get, and takes the lock in getFree
CallGet ==
    \E g \in DOMAIN goroutines :
      /\ MayCall(g)
      /\ pool' = Lock(pool, g)
      /\ goroutines' = [goroutines EXCEPT ![g].pc = "getFree"]
      /\ UNCHANGED <<saps, held, poolLog>>
      /\ UNCHANGED <<semaVars, socketVars>>

\* the entry of the history for a Get whose getFree has returned r when idle connections
\* were cached: free and err are what getFree returned (0 for nil, "" for nil), and
\* the rest is what Get has done since: whether it has returned, whether it called the
\* factory, and the connection it returned (0 for nil)
GetEntered(r, idle) ==
    [op |-> "Get", free |-> r.tp, err |-> r.err, idle |-> idle,
     returned |-> r.err # "", connected |-> FALSE, sap |-> 0]

\* the entry of a Get that has returned sap and err, after calling the factory or not
GetReturned(entry, sap, err, connected) ==
    [entry EXCEPT !.returned = TRUE, !.connected = connected, !.sap = sap, !.err = err]

\* getFree has returned r to the Get of goroutine g: Get returns the error, goes on to
\* reuse the connection, or goes on to the factory
GetFreed(g, r) ==
    /\ pool' = r.pool
    /\ poolLog' = Append(poolLog, GetEntered(r, Len(pool.connections)))
    /\ goroutines' =
         IF r.err # ""
         THEN [goroutines EXCEPT ![g] = IdleGoroutine]
         ELSE [goroutines EXCEPT ![g].pc = IF r.tp # 0 THEN "reuse" ELSE "connect",
                                 ![g].sap = r.tp,
                                 ![g].free = Len(poolLog) + 1]
    /\ UNCHANGED <<saps, held>>

\* the body of getFree, with the deferred Unlock
RunGetFree ==
    \E g \in DOMAIN goroutines :
      /\ goroutines[g].pc = "getFree"
      /\ GetFreed(g, getFree(pool))
      /\ UNCHANGED <<semaVars, socketVars>>

\* Get got an idle connection: sap.socket.ExtendDeadline(); return sap, nil
GetReuses ==
    \E g \in DOMAIN goroutines :
      /\ goroutines[g].pc = "reuse"
      /\ saps' = ExtendDeadline(saps, goroutines[g].sap)
      /\ held' = held \cup {goroutines[g].sap}
      /\ goroutines' = [goroutines EXCEPT ![g] = IdleGoroutine]
      /\ poolLog' = [poolLog EXCEPT ![goroutines[g].free] =
                       GetReturned(@, goroutines[g].sap, "", FALSE)]
      /\ UNCHANGED pool
      /\ UNCHANGED <<semaVars, socketVars>>

\* Get got none: return this.factory.Connect(), which makes a connection or fails
GetConnects ==
    \E g \in DOMAIN goroutines :
      /\ goroutines[g].pc = "connect"
      /\ \/ /\ saps' = Append(saps, [closed |-> FALSE])
            /\ held' = held \cup {Len(saps) + 1}
            /\ poolLog' = [poolLog EXCEPT ![goroutines[g].free] =
                             GetReturned(@, Len(saps) + 1, "", TRUE)]
         \/ /\ poolLog' = [poolLog EXCEPT ![goroutines[g].free] =
                             GetReturned(@, 0, "connect failed", TRUE)]
            /\ UNCHANGED <<saps, held>>
      /\ goroutines' = [goroutines EXCEPT ![g] = IdleGoroutine]
      /\ UNCHANGED pool
      /\ UNCHANGED <<semaVars, socketVars>>

\* a goroutine calls Put with a connection that a Get has returned and that has not
\* been Put since, and with an error or none, and takes the lock
CallPut ==
    \E g \in DOMAIN goroutines :
      /\ MayCall(g)
      /\ \E sap \in held, err \in BOOLEAN :
           /\ goroutines' = [goroutines EXCEPT ![g].pc = "put", ![g].sap = sap,
                                               ![g].err = err]
           /\ held' = held \ {sap}
      /\ pool' = Lock(pool, g)
      /\ UNCHANGED <<saps, poolLog>>
      /\ UNCHANGED <<semaVars, socketVars>>

\* Put has left r: the history records what Put was given and what it found
PutDone(g, r) ==
    /\ pool' = r.pool
    /\ saps' = r.saps
    /\ poolLog' = Append(poolLog,
                         [op |-> "Put", sap |-> goroutines[g].sap,
                          err |-> goroutines[g].err, idle |-> Len(pool.connections),
                          closed |-> pool.closed])
    /\ goroutines' = [goroutines EXCEPT ![g] = IdleGoroutine]
    /\ UNCHANGED held

\* the body of Put, with the deferred Unlock
RunPut ==
    \E g \in DOMAIN goroutines :
      /\ goroutines[g].pc = "put"
      /\ PutDone(g, Put(pool, saps, goroutines[g].sap, goroutines[g].err))
      /\ UNCHANGED <<semaVars, socketVars>>

\* a goroutine calls Close, and takes the lock
CallClose ==
    \E g \in DOMAIN goroutines :
      /\ MayCall(g)
      /\ pool' = Lock(pool, g)
      /\ goroutines' = [goroutines EXCEPT ![g].pc = "close"]
      /\ UNCHANGED <<saps, held, poolLog>>
      /\ UNCHANGED <<semaVars, socketVars>>

\* Close has left r: the history records the connections that were idle
CloseDone(g, r) ==
    /\ pool' = r.pool
    /\ saps' = r.saps
    /\ poolLog' = Append(poolLog, [op |-> "Close", idle |-> pool.connections])
    /\ goroutines' = [goroutines EXCEPT ![g] = IdleGoroutine]
    /\ UNCHANGED held

\* the body of Close, with the deferred Unlock
RunClose ==
    \E g \in DOMAIN goroutines :
      /\ goroutines[g].pc = "close"
      /\ CloseDone(g, Close(pool, saps))
      /\ UNCHANGED <<semaVars, socketVars>>

NextPool ==
    \/ CallGet
    \/ RunGetFree
    \/ GetReuses
    \/ GetConnects
    \/ CallPut
    \/ RunPut
    \/ CallClose
    \/ RunClose

\* no analysis is run
NoAnalysis ==
    /\ trees = <<>>
    /\ context = NewCompileContext
    /\ phase = 1
    /\ treeIdx = 1
    /\ pc = "done"
    /\ result = "none"
    /\ calls = <<>>

\* a new pool with a maxIdle of 0..MaxIdle, used by MaxGoroutines goroutines
InitPool ==
    /\ NoAnalysis
    /\ NoSocket
    /\ \E maxIdle \in 0..MaxIdle : pool = NewSocketPool(maxIdle)
    /\ saps = <<>>
    /\ held = {}
    /\ goroutines = [g \in 1..MaxGoroutines |-> IdleGoroutine]
    /\ poolLog = <<>>

\* goroutines that call Get, Put and Close on one pool, in every interleaving
SpecPool == InitPool /\ [][NextPool]_vars

----------------------------------------------------------------------------
(* lib/frugal: the socket.  A Socket buffers writes, sends them on Flush, and reads
   through a read buffer.  A socket that was handed out again by a pool (Reuse) is
   unverified until a read from the network succeeds; a failure on an unverified
   socket makes it dial again and resend what it flushed.

   The network is modelled by what a net.Conn can answer: every cn.Read and
   cn.Write has an outcome that the action chooses among those the state of the
   connection allows.  A byte received on connection c is the number c, so that a
   byte tells the connection it came from.  The write buffer is a bytes.Buffer:
   Bytes() returns a slice of the buffer's array and Reset() keeps the array, so a
   chunk of the resend buffer is a slice of the array the write buffer goes on
   writing into.  A slice is modelled by the array it is a slice of and the bytes
   it shows, and a write into an array changes what the slices of it show. *)

\* the read buffer's size (4096 in the source), scaled
kReadBufferSize == 2
\* the size of the first array of a bytes.Buffer (64 in the Go library), scaled
smallBufferSize == 2

\* the addresses a socket is made for
HostsAndPorts == {"a:1", "b:2"}
\* the byte slices Write is called with
Chunks == {<<1>>, <<2>>}
\* the lengths of the slices Read is called with
BufLens == {1, 2}

ErrSocketClosed == "socket was closed"
ErrPendingReads == "reads are pending; socket was not flushed"
ErrPendingWrites == "writes are pending; socket was not flushed"

\* the socket with the memory and the network it works on
World(s, st, cs) == [socket |-> s, stores |-> st, conns |-> cs]

\* a connection that was just dialled: its peer is there, nothing is closed
NewConn(hostAndPort) == [addr |-> hostAndPort, peer |-> "open", closed |-> FALSE]

\* what a cn.Read on a connection can answer: some bytes, or no byte and an error;
\* the error is a timeout when the peer is there and an end of file or a reset when
\* the peer has closed
ReadOutcomes(conn) ==
    {[n |-> k, err |-> ""] : k \in 1..kReadBufferSize}
    \cup {[n |-> 0, err |-> e] :
            e \in IF conn.peer = "open" THEN {"timeout"} ELSE {"EOF", "ECONNRESET"}}

\* what a cn.Write of a non-empty slice on a connection can answer: nil, or an error
WriteOutcomes(conn) ==
    IF conn.peer = "open" THEN {"", "timeout"} ELSE {"", "EPIPE", "ECONNRESET"}

\* NewSocket, when the dial succeeds
NewSocket(hostAndPort) ==
    World([hostAndPort |-> hostAndPort, cn |-> 1, closed |-> "",
           readBuffer |-> <<>>, readPos |-> 0, readLimit |-> 0, verified |-> TRUE,
           writeBuffer |-> [store |-> 0, bytes |-> <<>>], resendBuffer |-> <<>>],
          <<>>,
          <<NewConn(hostAndPort)>>)

IsOpen(s) == s.closed = ""

\* a slice of the array store that shows bytes
Slice(store, bytes) == [store |-> store, bytes |-> bytes]

\* the slice as it shows after bytes were written into its array at the places
\* from + 1 .. from + Len(bytes): the places it covers show the new bytes
Overwritten(slice, store, from, bytes) ==
    IF slice.store # store THEN slice
    ELSE [slice EXCEPT !.bytes = [i \in DOMAIN @ |->
                                    IF i > from /\ i <= from + Len(bytes)
                                    THEN bytes[i - from] ELSE @[i]]]

\* the chunks of a resend buffer after such a write
RECURSIVE OverwrittenAll(_, _, _, _)
OverwrittenAll(resend, store, from, bytes) ==
    IF resend = <<>> THEN <<>>
    ELSE <<Overwritten(Head(resend), store, from, bytes)>>
         \o OverwrittenAll(Tail(resend), store, from, bytes)

\* the size of the array a bytes.Buffer allocates to hold n more bytes than the len
\* it holds in an array of cap bytes (0 when it has none)
Grown(cap, n) ==
    IF cap = 0 THEN IF n <= smallBufferSize THEN smallBufferSize ELSE n
    ELSE 2 * cap + n

\* the size of the write buffer's array, 0 when it has none
WriteCap(w) ==
    IF w.socket.writeBuffer.store = 0 THEN 0 ELSE w.stores[w.socket.writeBuffer.store]

\* bytes.Buffer.Write: the bytes go after the bytes of the buffer in its array when
\* they fit, and then every chunk that is a slice of that array shows them in the
\* places it covers; when they do not fit the buffer moves to a new, larger array
BufferWrite(w, bytes) ==
    IF Len(w.socket.writeBuffer.bytes) + Len(bytes) <= WriteCap(w)
    THEN [w EXCEPT !.socket.resendBuffer =
                       OverwrittenAll(@, w.socket.writeBuffer.store,
                                      Len(w.socket.writeBuffer.bytes), bytes),
                   !.socket.writeBuffer.bytes = @ \o bytes]
    ELSE [w EXCEPT !.stores = Append(@, Grown(WriteCap(w), Len(bytes))),
                   !.socket.writeBuffer = Slice(Len(w.stores) + 1, @.bytes \o bytes)]

\* what a method of the socket has done and returned: the world it leaves, the number
\* and the error it returns, the bytes it put into the caller's slice, and whether it
\* ended in a panic
Done(w, n, err, data) == [w |-> w, n |-> n, err |-> err, data |-> data, panicked |-> FALSE]

\* Close: the socket is closed, and so is its connection; a socket without a
\* connection makes the call of this.cn.Close() panic
SocketClose(w) ==
    IF w.socket.cn = 0
    THEN [Done([w EXCEPT !.socket.closed = ErrSocketClosed], 0, "", <<>>)
            EXCEPT !.panicked = TRUE]
    ELSE Done([w EXCEPT !.socket.closed = ErrSocketClosed,
                        !.conns[w.socket.cn].closed = TRUE], 0, "", <<>>)

\* Reuse
Reuse(w) ==
    IF w.socket.closed # "" THEN Done(w, 0, w.socket.closed, <<>>)
    ELSE IF w.socket.readLimit # 0 THEN Done(w, 0, ErrPendingReads, <<>>)
    ELSE IF Len(w.socket.writeBuffer.bytes) > 0 THEN Done(w, 0, ErrPendingWrites, <<>>)
    ELSE Done([w EXCEPT !.socket.verified = FALSE, !.socket.resendBuffer = <<>>],
              0, "", <<>>)

\* Write
Write(w, bytes) ==
    IF w.socket.closed # "" THEN Done(w, 0, w.socket.closed, <<>>)
    ELSE Done(BufferWrite(w, bytes), Len(bytes), "", <<>>)

\* the smaller of two numbers
Least(a, b) == IF a < b THEN a ELSE b

\* copy(buf, this.readBuffer[this.readPos:this.readLimit]); this.readPos += n
copyOut(w, bufLen) ==
    Done([w EXCEPT !.socket.readPos = @ + Least(bufLen, w.socket.readLimit - @)],
         Least(bufLen, w.socket.readLimit - w.socket.readPos),
         "",
         SubSeq(w.socket.readBuffer, w.socket.readPos + 1,
                w.socket.readPos + Least(bufLen, w.socket.readLimit - w.socket.readPos)))

\* recv into a slice of bufLen bytes, when the cn.Read it may make answers out
recv(w, bufLen, out) ==
    IF w.socket.readPos = w.socket.readLimit
    THEN IF out.err # ""
         THEN Done([w EXCEPT !.socket.readPos = 0, !.socket.readLimit = 0],
                   out.n, out.err, <<>>)
         ELSE copyOut([w EXCEPT !.socket.readPos = 0,
                                !.socket.readLimit = out.n,
                                !.socket.readBuffer = [i \in 1..out.n |-> w.socket.cn],
                                !.socket.verified = TRUE],
                      bufLen)
    ELSE copyOut(w, bufLen)

\* what tryRestart has done: the world it leaves, the error it returns, whether it
\* dialled, the address it dialled, whether the dial succeeded, and the chunks it
\* wrote to the new connection
Restarted(w, err, dialed, addr, connected, resent) ==
    [w |-> w, err |-> err, dialed |-> dialed, addr |-> addr, connected |-> connected,
     resent |-> resent]

\* the bytes of the chunks 1..upto of resend, as the chunks show them
Resent(resend, upto) == [i \in 1..upto |-> resend[i].bytes]

\* the socket after a dial that succeeded: open again, verified, nothing to resend
Reopened(s, cn) ==
    [s EXCEPT !.cn = cn, !.closed = "", !.verified = TRUE, !.resendBuffer = <<>>]

\* tryRestart that leaves the socket unverified
tryRestartUnverified(w, err, o) ==
    IF w.socket.verified THEN Restarted(w, err, FALSE, "", FALSE, <<>>)
    ELSE IF ~o.dial
    THEN Restarted([SocketClose(w).w EXCEPT !.socket.cn = 0], "dial failed",
                   TRUE, w.socket.hostAndPort, FALSE, <<>>)
    ELSE Restarted(World([Reopened(SocketClose(w).w.socket, Len(w.conns) + 1)
                            EXCEPT !.verified = FALSE],
                         w.stores,
                         Append(SocketClose(w).w.conns, NewConn(w.socket.hostAndPort))),
                   IF o.resend \in 1..Len(w.socket.resendBuffer)
                      /\ Len(w.socket.resendBuffer[o.resend].bytes) > 0
                   THEN "timeout" ELSE "",
                   TRUE, w.socket.hostAndPort, TRUE,
                   Resent(w.socket.resendBuffer,
                          IF o.resend \in 1..Len(w.socket.resendBuffer)
                             /\ Len(w.socket.resendBuffer[o.resend].bytes) > 0
                          THEN o.resend - 1 ELSE Len(w.socket.resendBuffer)))

\* isRestartable: io.EOF, or a net.OpError whose Err is EPIPE and is ECONNRESET, which
\* no error is.  No method of the socket calls it
isRestartable(err) ==
    \/ err = "EOF"
    \/ (err \in {"EPIPE", "ECONNRESET", "timeout"} /\ err = "EPIPE" /\ err = "ECONNRESET")

\* tryRestart that does not look at this.verified
tryRestartAlways(w, err, o) ==
    IF ~o.dial
    THEN Restarted([SocketClose(w).w EXCEPT !.socket.cn = 0], "dial failed",
                   TRUE, w.socket.hostAndPort, FALSE, <<>>)
    ELSE Restarted(World(Reopened(SocketClose(w).w.socket, Len(w.conns) + 1),
                         w.stores,
                         Append(SocketClose(w).w.conns, NewConn(w.socket.hostAndPort))),
                   IF o.resend \in 1..Len(w.socket.resendBuffer)
                      /\ Len(w.socket.resendBuffer[o.resend].bytes) > 0
                   THEN "timeout" ELSE "",
                   TRUE, w.socket.hostAndPort, TRUE,
                   Resent(w.socket.resendBuffer,
                          IF o.resend \in 1..Len(w.socket.resendBuffer)
                             /\ Len(w.socket.resendBuffer[o.resend].bytes) > 0
                          THEN o.resend - 1 ELSE Len(w.socket.resendBuffer)))

\* tryRestart after the error err, when the dial succeeds or not as o.dial says and
\* the write of chunk o.resend to the new connection fails (0: no write fails; the
\* send of an empty chunk writes nothing and does not fail).  A verified socket
\* returns the error.  An unverified one closes its connection and dials its address:
\* when the dial fails the socket stays closed, without a connection; when it
\* succeeds the socket is open and verified, and sends the chunks of the resend
\* buffer in order until a write fails
tryRestart(w, err, o) ==
    IF w.socket.verified THEN Restarted(w, err, FALSE, "", FALSE, <<>>)
    ELSE IF ~o.dial
    THEN Restarted([SocketClose(w).w EXCEPT !.socket.cn = 0], "dial failed",
                   TRUE, w.socket.hostAndPort, FALSE, <<>>)
    ELSE Restarted(World(Reopened(SocketClose(w).w.socket, Len(w.conns) + 1),
                         w.stores,
                         Append(SocketClose(w).w.conns, NewConn(w.socket.hostAndPort))),
                   IF o.resend \in 1..Len(w.socket.resendBuffer)
                      /\ Len(w.socket.resendBuffer[o.resend].bytes) > 0
                   THEN "timeout" ELSE "",
                   TRUE, w.socket.hostAndPort, TRUE,
                   Resent(w.socket.resendBuffer,
                          IF o.resend \in 1..Len(w.socket.resendBuffer)
                             /\ Len(w.socket.resendBuffer[o.resend].bytes) > 0
                          THEN o.resend - 1 ELSE Len(w.socket.resendBuffer)))

\* what Flush or Read has done and returned: what it returns (r), the error of its
\* first write or read of the network ("" when that did not fail or was not made),
\* and what tryRestart did (rs)
Outcome(r, failed, rs) ==
    [w |-> r.w, n |-> r.n, err |-> r.err, data |-> r.data, panicked |-> r.panicked,
     failed |-> failed, dialed |-> rs.dialed, addr |-> rs.addr,
     connected |-> rs.connected, resent |-> rs.resent]

\* a method that did not reach tryRestart, or a tryRestart that returned at once
NoRestart == Restarted(<<>>, "", FALSE, "", FALSE, <<>>)

\* the socket after the first lines of Flush: the write buffer's bytes are its last
\* chunk to resend, and the write buffer is empty, on the same array
Stolen(w) ==
    [w EXCEPT !.socket.resendBuffer = Append(@, w.socket.writeBuffer),
              !.socket.writeBuffer.bytes = <<>>]

\* Flush after the send has failed with err
flushRestarted(rs, err) == Outcome(Done(rs.w, 0, rs.err, <<>>), err, rs)

\* Flush, when the write of the chunk answers o.send (the send of an empty chunk
\* writes nothing) and a restart goes as o says
Flush(w, o) ==
    IF w.socket.closed # "" THEN Outcome(Done(w, 0, w.socket.closed, <<>>), "", NoRestart)
    ELSE IF Len(w.socket.writeBuffer.bytes) = 0 \/ o.send = ""
    THEN Outcome(Done(Stolen(w), 0, "", <<>>), "", NoRestart)
    ELSE flushRestarted(tryRestart(Stolen(w), o.send, o), o.send)

\* Read after the first recv has returned no byte and tryRestart has returned rs
readRestarted(rs, failed, bufLen, o) ==
    IF rs.err # "" THEN Outcome(Done(rs.w, 0, rs.err, <<>>), failed, rs)
    ELSE Outcome(recv(rs.w, bufLen, o.again), failed, rs)

\* Read after the first recv has returned r
readReceived(r, bufLen, o) ==
    IF r.n = 0 THEN readRestarted(tryRestart(r.w, r.err, o), r.err, bufLen, o)
    ELSE Outcome(r, r.err, NoRestart)

\* Read into a slice of bufLen bytes, when the first read of the network answers
\* o.recv, a restart goes as o says and a second read of the network answers o.again
Read(w, bufLen, o) ==
    IF w.socket.closed # "" THEN Outcome(Done(w, 0, w.socket.closed, <<>>), "", NoRestart)
    ELSE IF Len(w.socket.writeBuffer.bytes) > 0
    THEN Outcome(Done(w, 0, ErrPendingWrites, <<>>), "", NoRestart)
    ELSE readReceived(recv(w, bufLen, o.recv), bufLen, o)

\* the world of the state
TheWorld == World(socket, stores, conns)

\* the connection of the socket, if it has one
CurrentConn == IF socket.cn = 0 THEN NewConn("") ELSE conns[socket.cn]

\* the socket is one that dials again when a write or a read fails
MayRestart == socket.closed = "" /\ ~socket.verified

\* the ways a dial can go: it may succeed as long as MaxConns connections have not
\* been made (a socket that does not dial again is not asked)
Dials == IF MayRestart /\ Len(conns) < MaxConns THEN BOOLEAN ELSE {FALSE}

\* the chunk whose write to the new connection fails, 0 for none
ResendFailures == IF MayRestart THEN 0..MaxResend ELSE {0}

\* what the read of the new connection can answer
ReadAgainOutcomes ==
    IF MayRestart THEN ReadOutcomes(NewConn("")) ELSE {[n |-> 0, err |-> "timeout"]}

\* the ways the network can answer during a Flush and during a Read.  An answer that
\* is not asked for is fixed: no dial when the first write or read succeeds, no write
\* to a new connection and no read of it when there is none, no read of it when a
\* write to it failed
FlushOracles ==
    {o \in [send : WriteOutcomes(CurrentConn), dial : Dials, resend : ResendFailures] :
       /\ o.send = "" => ~o.dial
       /\ ~o.dial => o.resend = 0
       /\ o.resend <= Len(socket.resendBuffer) + 1}
ReadOracles ==
    {o \in [recv : ReadOutcomes(CurrentConn), dial : Dials, resend : ResendFailures,
            again : ReadAgainOutcomes] :
       /\ o.recv.err = "" => ~o.dial
       /\ ~o.dial => o.resend = 0
       /\ o.resend <= Len(socket.resendBuffer)
       /\ ~o.dial \/ o.resend # 0 => o.again = [n |-> 0, err |-> "timeout"]}

\* the history the claims read, after the call of op has returned r: whether Reuse
\* has ever succeeded, the number of dials since the last Reuse that succeeded, and,
\* in the behaviours that keep them (returned.keeps), the chunks Flush has taken from
\* the write buffer since then, as they were when Flush took them.  The chunks are kept
\* as long as the socket may dial again, that is while it is open and unverified, and
\* through the call that dials
History(op, r) ==
    IF op = "Reuse" /\ r.err = ""
    THEN [reused |-> TRUE, redials |-> 0, flushed |-> <<>>]
    ELSE [reused |-> returned.reused,
          redials |-> returned.redials + (IF r.dialed THEN 1 ELSE 0),
          flushed |-> IF \/ ~returned.keeps
                         \/ ~r.dialed /\ (r.w.socket.verified \/ r.w.socket.closed # "")
                      THEN <<>>
                      ELSE (IF returned.dialed THEN <<>> ELSE returned.flushed)
                           \o (IF op = "Flush" /\ socket.closed = ""
                               THEN <<socket.writeBuffer.bytes>> ELSE <<>>)]

\* the call of op has done and returned r: the state keeps what it returned, the
\* error of its first write or read of the network, whether it dialled and where,
\* the chunks it wrote to the new connection, and the history
Returns(op, r) ==
    /\ socket' = r.w.socket
    /\ stores' = r.w.stores
    /\ conns' = r.w.conns
    /\ returned' = [op |-> op, n |-> r.n, err |-> r.err, data |-> r.data,
                    panicked |-> r.panicked, failed |-> r.failed, dialed |-> r.dialed,
                    addr |-> r.addr, resent |-> r.resent,
                    keeps |-> returned.keeps,
                    reused |-> History(op, r).reused,
                    redials |-> History(op, r).redials,
                    flushed |-> History(op, r).flushed]
    /\ UNCHANGED <<semaVars, poolVars>>

\* the program runs until a panic
Running == ~returned.panicked

CallWrite ==
    \E bytes \in Chunks :
      /\ Running
      /\ Len(socket.writeBuffer.bytes) + Len(bytes) <= MaxPending
      /\ Returns("Write", Outcome(Write(TheWorld, bytes), "", NoRestart))

CallFlush ==
    \E o \in FlushOracles :
      /\ Running
      /\ Len(socket.resendBuffer) < MaxResend
      /\ Returns("Flush", Flush(TheWorld, o))

CallRead ==
    \E bufLen \in BufLens, o \in ReadOracles :
      /\ Running
      /\ Returns("Read", Read(TheWorld, bufLen, o))

CallReuse ==
    /\ Running
    /\ Returns("Reuse", Outcome(Reuse(TheWorld), "", NoRestart))

CallSocketClose ==
    /\ Running
    /\ Returns("Close", Outcome(SocketClose(TheWorld), "", NoRestart))

\* the peer of the socket's connection closes it
PeerCloses ==
    /\ Running
    /\ socket.cn # 0
    /\ conns[socket.cn].peer = "open"
    /\ conns' = [conns EXCEPT ![socket.cn].peer = "closed"]
    /\ UNCHANGED <<socket, stores, returned>>
    /\ UNCHANGED <<semaVars, poolVars>>

NextSocket ==
    \/ CallWrite
    \/ CallFlush
    \/ CallRead
    \/ CallReuse
    \/ CallSocketClose
    \/ PeerCloses

\* a socket that NewSocket has just returned, for one of the addresses; keeps says
\* whether the history keeps the chunks Flush takes
NewSocketReturned(keeps) ==
    /\ NoAnalysis
    /\ NoPool
    /\ \E hostAndPort \in HostsAndPorts :
         /\ socket = NewSocket(hostAndPort).socket
         /\ stores = NewSocket(hostAndPort).stores
         /\ conns = NewSocket(hostAndPort).conns
         /\ returned = [op |-> "NewSocket", n |-> 0, err |-> "", data |-> <<>>,
                        panicked |-> FALSE, failed |-> "", dialed |-> TRUE,
                        addr |-> hostAndPort, resent |-> <<>>, keeps |-> keeps,
                        reused |-> FALSE, redials |-> 0, flushed |-> <<>>]

InitSocket == NewSocketReturned(FALSE)

\* one client that calls the methods of one socket, and the peer
SpecSocket == InitSocket /\ [][NextSocket]_vars

InitResend == NewSocketReturned(TRUE)

\* the same, with the chunks Flush takes kept in the history
SpecResend == InitResend /\ [][NextSocket]_vars

----------------------------------------------------------------------------
(* The programs the analysis is run on.  Each family is a set of flattened tree      *)
(* lists, as the parser hands them to Analyze: no name map is filled, no name bound. *)

Names == <<"a", "b", "c", "d", "e", "f">>

\* the names of the typedefs a root gives the types it takes from its includes
Aliases == <<"Ta", "Tb", "Tc", "Td", "Te", "Tf">>

SeqsUpTo(S, n) == UNION {[1..k -> S] : k \in 1..n}

I32Type == BuiltinType("TOK_I32")

Path(ids, loc) == [i \in 1..Len(ids) |-> Ident(ids[i], loc)]
TypeName(ids, loc) == NameProxyNode(Path(ids, loc))

Required(loc) == Some(Keyword("TOK_REQUIRED", loc))
Optional(loc) == Some(Keyword("TOK_OPTIONAL", loc))

\* a field "i: required i32 name" at line loc
PlainField(i, name, loc) ==
    StructField(Some(IntLit(i, loc)), Required(loc), I32Type, Ident(name, loc), None)

\* a tree without includes
Tree(package, nodes) == ParseTree(package, package, EmptyMap, nodes)

\* the integer literals of the model: around the bounds of int32 and beyond them
LitValues == {I32Min - 1, I32Min, 0, 1, I32Max, I32Max + 1, Pow2(I32Bits) + 1}

\* an optional integer literal: <<>> or <<v>>
OptLits == {<<>>} \cup {<<v>> : v \in LitValues}

OptIntLit(o, loc) == IF o = <<>> THEN None ELSE Some(IntLit(o[1], loc))

\* one tree with one enum, its entries named apart, each with or without a value
EnumPrograms ==
    { << Tree("a", << EnumNode(Ident("E", 10),
                               [i \in 1..Len(vals) |->
                                  EnumEntry(Ident(Names[i], 10 + i),
                                            OptIntLit(vals[i], 10 + i))]) >>) >>
      : vals \in SeqsUpTo(OptLits, MaxEntries) }

\* one tree with a struct and an enum whose members are named freely
MemberPrograms ==
    { << Tree("a", << StructNode("TOK_STRUCT", Ident("S", 10),
                                 [i \in 1..Len(fs) |-> PlainField(i, fs[i], 10 + i)]),
                      EnumNode(Ident("E", 20),
                               [i \in 1..Len(es) |->
                                  EnumEntry(Ident(es[i], 20 + i), None)]) >>) >>
      : fs \in SeqsUpTo({"x", "y"}, MaxFields), es \in SeqsUpTo({"x", "y"}, MaxEntries) }

\* a top-level declaration of the given kind and name at line loc
Decl(kind, name, loc) ==
    CASE kind = "struct" ->
           StructNode("TOK_STRUCT", Ident(name, loc), <<PlainField(1, "x", loc + 1)>>)
      [] kind = "enum" ->
           EnumNode(Ident(name, loc), <<EnumEntry(Ident("x", loc + 1), None)>>)
      [] kind = "typedef" -> TypedefNode(I32Type, Ident(name, loc))
      [] kind = "const" ->
           ConstNode(I32Type, Ident(name, loc), LiteralNode(IntLit(1, loc)))
      [] kind = "service" -> ServiceNode(Ident(name, loc), None, <<>>)

\* one tree whose top-level declarations are named freely
DeclPrograms ==
    { << Tree("a", [i \in 1..Len(ds) |-> Decl(ds[i][1], ds[i][2], 10 * i)]) >>
      : ds \in SeqsUpTo({"struct", "enum", "typedef"} \X {"P", "Q"}, MaxDecls) }

InitSymbols ==
    \/ \E ts \in EnumPrograms : InitOn(ts)
    \/ \E ts \in MemberPrograms : InitOn(ts)
    \/ \E ts \in DeclPrograms : InitOn(ts)

\* Analyze on the programs about enum values and redeclarations
SpecSymbols == InitSymbols /\ [][Next]_vars

\* a field "i: required <type> name" at line loc
TypedField(i, type, name, loc) ==
    StructField(Some(IntLit(i, loc)), Required(loc), type, Ident(name, loc), None)

\* what a tree of the driver's programs holds beside its struct S: nothing ("ok"), or a
\* declaration that one phase rejects
DriverNodes(kind) ==
    CASE kind = "dup" ->
           << StructNode("TOK_STRUCT", Ident("D", 20),
                         <<PlainField(1, "x", 21), PlainField(2, "x", 22)>>) >>
      [] kind = "unbound" -> << TypedefNode(TypeName(<<"Zz">>, 20), Ident("U", 20)) >>
      [] kind = "order" ->
           << StructNode("TOK_STRUCT", Ident("O", 20),
                         <<StructField(None, Required(21), I32Type, Ident("x", 21), None)>>) >>
      [] kind = "cyclic" ->
           << StructNode("TOK_STRUCT", Ident("C", 20),
                         <<TypedField(1, TypeName(<<"C">>, 21), "x", 21)>>) >>
      [] OTHER -> <<>>

\* the kinds of a tree that is not the root, and those of the root: "unused" is a root
\* that references none of the trees it includes
DriverKinds == {"ok", "dup", "unbound", "order", "cyclic"}
RootKinds(n) == IF n > 1 THEN DriverKinds \cup {"unused"} ELSE DriverKinds

\* the root's reference to the struct S of the tree i it includes
RootReference(i) ==
    TypedefNode(TypeName(<<Names[i], "S">>, 30 + i), Ident(Aliases[i], 30 + i))

\* tree t of a program of n trees: the root, tree 1, includes every other tree, and
\* every tree declares a struct S
DriverTree(kind, t, n) ==
    ParseTree(Names[t], Names[t],
              IF t = 1
              THEN [name \in {Names[i] : i \in 2..n} |->
                      Include(StrLit(name, 1),
                              CHOOSE i \in 2..n : Names[i] = name)]
              ELSE EmptyMap,
              << StructNode("TOK_STRUCT", Ident("S", 10), <<PlainField(1, "x", 11)>>) >>
              \o DriverNodes(kind)
              \o (IF t = 1 /\ kind # "unused"
                  THEN [i \in 1..(n - 1) |-> RootReference(i + 1)]
                  ELSE <<>>))

\* the flattened programs of up to MaxTrees trees
DriverPrograms ==
    UNION { { [t \in 1..n |-> DriverTree(IF t = 1 THEN root ELSE rest[t], t, n)]
              : root \in RootKinds(n), rest \in [1..n -> DriverKinds] }
            : n \in 1..MaxTrees }

InitDriver == \E ts \in DriverPrograms : InitOn(ts)

\* Analyze on the programs about the phase driver
SpecDriver == InitDriver /\ [][Next]_vars

\* Analyze called twice on the programs about the phase driver
SpecAgain == InitDriver /\ [][NextAgain]_vars

\* the message of a diagnostic the context holds before Analyze is called
PriorMessage == "reported before the analysis"

\* the contexts Analyze is called with: a new one, and one a diagnostic was reported to
PriorContexts ==
    {NewCompileContext, ReportError(NewCompileContext, 1, PriorMessage, "", 0)}

\* Analyze is called on a program with one of these contexts
InitPrior ==
    \E ts \in DriverPrograms, ctx \in PriorContexts :
       /\ NoPool
       /\ NoSocket
       /\ trees = ts
       /\ context = ctx
       /\ phase = 1
       /\ treeIdx = 1
       /\ pc = "running"
       /\ result = "none"
       /\ calls = <<>>

\* Analyze with a context that may hold a diagnostic already
SpecPrior == InitPrior /\ [][Next]_vars

\* a tree that declares the struct S and nothing else
PlainTree(path, package) ==
    ParseTree(path, package, EmptyMap,
              << StructNode("TOK_STRUCT", Ident("S", 10), <<PlainField(1, "x", 11)>>) >>)

\* the paths of the references of the file "a": its own struct S, the struct S of the
\* include b, a name the include b lacks, the bare include b, the struct S of the
\* include a (an included file that has the package name of the file itself), and a
\* name that is nothing
ReferencePaths == {<<"S">>, <<"b", "S">>, <<"b", "Zz">>, <<"b">>, <<"a", "S">>, <<"Zz">>}

\* the file "a" with the includes incs (include names) and, after its struct S, a
\* typedef for each of the paths refs.  The included trees follow it in the list: an
\* include map is keyed by the package name of the included tree
IncludingTree(incs, refs) ==
    ParseTree("a", "a",
              [name \in incs |->
                 Include(StrLit(name, IF name = "b" THEN 1 ELSE 2),
                         IF name = "b" THEN 2 ELSE 1 + Cardinality(incs))],
              << StructNode("TOK_STRUCT", Ident("S", 10), <<PlainField(1, "x", 11)>>) >>
              \o [i \in 1..Len(refs) |->
                    TypedefNode(TypeName(refs[i], 30 + i), Ident(Aliases[i], 30 + i))])

UnusedPrograms ==
    { <<IncludingTree(incs, refs)>>
      \o (IF "b" \in incs THEN <<PlainTree("b", "b")>> ELSE <<>>)
      \o (IF "a" \in incs THEN <<PlainTree("lib/a", "a")>> ELSE <<>>)
      : incs \in SUBSET {"a", "b"},
        refs \in {<<>>} \cup SeqsUpTo(ReferencePaths, MaxRefs) }

InitUnused == \E ts \in UnusedPrograms : InitOn(ts)

\* Analyze on the programs about includes
SpecUnused == InitUnused /\ [][Next]_vars

\* the names of the services and of the structs of the programs about cycles
ServiceNames == <<"A", "B", "C", "D", "E", "F">>
StructNames == <<"S", "T", "U", "V", "W", "X">>

\* one tree of up to MaxServices services without methods; ext[i] is 0 when service i
\* extends nothing, else the number of the service it extends
ServicePrograms ==
    UNION { { << Tree("a", [i \in 1..n |->
                              ServiceNode(Ident(ServiceNames[i], 10 * i),
                                          IF ext[i] = 0 THEN None
                                          ELSE Some(TypeName(<<ServiceNames[ext[i]]>>,
                                                             10 * i + 1)),
                                          <<>>)]) >>
              : ext \in [1..n -> 0..n] }
            : n \in 1..MaxServices }

InitService == \E ts \in ServicePrograms : InitOn(ts)

\* Analyze on the programs about service inheritance
SpecService == InitService /\ [][Next]_vars

\* the ways the programs about struct cycles write a field of struct type: the struct's
\* name, a list of it, a map from it or to it, or a typedef of it
Wrappers == {"plain", "list", "mapkey", "mapvalue", "typedef"}

\* the type of a field that refers to struct j (0: no struct, an i32), at line loc
FieldType(wrapper, j, loc) ==
    CASE j = 0 -> I32Type
      [] wrapper = "list" -> ListType(TypeName(<<StructNames[j]>>, loc))
      [] wrapper = "mapkey" -> MapType(TypeName(<<StructNames[j]>>, loc), I32Type)
      [] wrapper = "mapvalue" -> MapType(I32Type, TypeName(<<StructNames[j]>>, loc))
      [] wrapper = "typedef" -> TypeName(<<Aliases[j]>>, loc)
      [] OTHER -> TypeName(<<StructNames[j]>>, loc)

\* struct j whose fields refer to the structs refs
CycleStruct(wrapper, j, refs) ==
    StructNode("TOK_STRUCT", Ident(StructNames[j], 10 * j),
               [i \in 1..Len(refs) |->
                  TypedField(i, FieldType(wrapper, refs[i], 10 * j + i), Names[i],
                             10 * j + i)])

\* one tree with the structs S, T and U: S has up to MaxFields fields, T and U have one;
\* with the wrapper "typedef" the tree ends with a typedef of each struct
StructPrograms ==
    { << Tree("a", << CycleStruct(w, 1, refs), CycleStruct(w, 2, <<t>>),
                      CycleStruct(w, 3, <<u>>) >>
                   \o (IF w = "typedef"
                       THEN [j \in 1..3 |->
                               TypedefNode(TypeName(<<StructNames[j]>>, 50 + j),
                                           Ident(Aliases[j], 50 + j))]
                       ELSE <<>>)) >>
      : w \in Wrappers, refs \in SeqsUpTo(0..3, MaxFields), t \in 0..3, u \in 0..3 }

InitStruct == \E ts \in StructPrograms : InitOn(ts)

\* Analyze on the programs about struct cycles
SpecStruct == InitStruct /\ [][Next]_vars

\* the qualifier of a field: "required", "optional" or none
Qualifier(q, loc) ==
    CASE q = "required" -> Required(loc)
      [] q = "optional" -> Optional(loc)
      [] OTHER -> None

\* the struct S whose field i has the qualifier quals[i] and, when defs[i], the default 1
InitializedStruct(quals, defs) ==
    StructNode("TOK_STRUCT", Ident("S", 10),
               [i \in 1..Len(quals) |->
                  StructField(Some(IntLit(i, 10 + i)), Qualifier(quals[i], 10 + i), I32Type,
                              Ident(Names[i], 10 + i),
                              IF defs[i] THEN Some(LiteralNode(IntLit(1, 10 + i)))
                              ELSE None)])

\* the fields of given (a set of field numbers) in declaration order
RECURSIVE Ascending(_)
Ascending(given) ==
    IF given = {} THEN <<>>
    ELSE <<CHOOSE i \in given : \A j \in given : i <= j>>
         \o Ascending(given \ {CHOOSE i \in given : \A j \in given : i <= j})

\* the constant "const S c = { ... }" whose initializer has an entry, of value 1, for
\* each field of given
InitConst(given) ==
    ConstNode(TypeName(<<"S">>, 30), Ident("c", 30),
              MapNode([k \in 1..Cardinality(given) |->
                         MapNodeEntry(LiteralNode(StrLit(Names[Ascending(given)[k]], 31)),
                                      LiteralNode(IntLit(1, 31)))]))

\* one tree with the struct S of n fields and a constant of type S; the initializer is
\* never empty
InitPrograms(n) ==
    { << Tree("a", << InitializedStruct(quals, defs), InitConst(given) >>) >>
      : quals \in [1..n -> {"required", "optional", "none"}],
        defs \in [1..n -> BOOLEAN],
        given \in (SUBSET (1..n)) \ {{}} }

InitInit == \E n \in 1..MaxFields : \E ts \in InitPrograms(n) : InitOn(ts)

\* Analyze on the programs about struct initializers
SpecInit == InitInit /\ [][Next]_vars

\* the names of the members of the enums of the programs about enum references
MemberNames == <<"RED", "GREEN", "BLUE", "CYAN", "PINK", "GREY">>

\* an enum with the first n member names, none with an explicit value
PlainEnum(name, n, loc) ==
    EnumNode(Ident(name, loc), [i \in 1..n |-> EnumEntry(Ident(MemberNames[i], loc + i), None)])

\* the types of the constant: the enum Color, a typedef of it, the enum Color of the
\* include lib, a typedef of that
EnumTypePaths == {<<"Color">>, <<"TC">>, <<"lib", "Color">>, <<"LC">>}

\* the initializers of the constant: the literals 1 and "RED", and the names made of an
\* enum or a typedef followed by nothing, by a member name (the last one of which no
\* enum has), or by a member name and one more component
EnumInits ==
    {LiteralNode(IntLit(1, 40)), LiteralNode(StrLit("RED", 40))}
    \cup { NameProxyNode(Path(prefix \o tail, 40))
           : prefix \in {<<"Color">>, <<"Other">>, <<"lib", "Color">>, <<"TC">>},
             tail \in {<<>>} \cup {<<MemberNames[m]>> : m \in 1..(MaxEntries + 1)}
                      \cup {<<MemberNames[1], "x">>} }

\* the file "a" with the enums Color (n members) and Other (MaxEntries members), the
\* typedefs TC and LC, and the constant c; the file "lib" it includes has an enum Color
\* of its own
EnumRefPrograms ==
    { << ParseTree("a", "a", [name \in {"lib"} |-> Include(StrLit("lib", 1), 2)],
                   << PlainEnum("Color", n, 10), PlainEnum("Other", MaxEntries, 20),
                      TypedefNode(TypeName(<<"Color">>, 30), Ident("TC", 30)),
                      TypedefNode(TypeName(<<"lib", "Color">>, 32), Ident("LC", 32)),
                      ConstNode(NameProxyNode(Path(type, 39)), Ident("c", 39), init) >>),
         Tree("lib", << PlainEnum("Color", n, 10) >>) >>
      : n \in 1..MaxEntries, type \in EnumTypePaths, init \in EnumInits }

InitEnumRef == \E ts \in EnumRefPrograms : InitOn(ts)

\* Analyze on the programs about enum references
SpecEnumRef == InitEnumRef /\ [][Next]_vars

\* the order numbers of the fields of the programs about order numbers
OrderLits == OptLits \cup {<<2>>}

\* the order numbers of the arguments and of the exceptions of a method
ArgOrders == {<<>>, <<0>>, <<1>>, <<2>>}

\* an exception X with one field
PlainException(loc) ==
    StructNode("TOK_EXCEPTION", Ident("X", loc), <<PlainField(1, "x", loc + 1)>>)

\* the method "void m(args) throws (throws)": argument i is an i32 with the order number
\* as[i], exception i is an X with the order number xs[i]; each is on a line of its own
OrderedMethod(as, xs) ==
    ServiceMethod(BuiltinType("TOK_VOID"), Ident("m", 30),
                  [i \in 1..Len(as) |->
                     ServiceMethodArg(OptIntLit(as[i], 30 + i), I32Type,
                                      Ident(Names[i], 30 + i))],
                  [i \in 1..Len(xs) |->
                     ServiceMethodArg(OptIntLit(xs[i], 40 + i), TypeName(<<"X">>, 40 + i),
                                      Ident(Names[MaxArgs + i], 40 + i))])

\* one tree with a struct whose fields have the order numbers os (a field without
\* qualifier, each on a line of its own), or one tree with an exception and a service
\* of one method
OrderPrograms ==
    { << Tree("a", << StructNode("TOK_STRUCT", Ident("S", 10),
                                 [i \in 1..Len(os) |->
                                    StructField(OptIntLit(os[i], 10 + i), None, I32Type,
                                                Ident(Names[i], 10 + i), None)]) >>) >>
      : os \in SeqsUpTo(OrderLits, MaxFields) }
    \cup
    { << Tree("a", << PlainException(10),
                      ServiceNode(Ident("V", 20), None, <<OrderedMethod(as, xs)>>) >>) >>
      : as \in {<<>>} \cup SeqsUpTo(ArgOrders, MaxArgs),
        xs \in {<<>>} \cup SeqsUpTo(ArgOrders, MaxArgs) }

InitOrder == \E ts \in OrderPrograms : InitOn(ts)

\* Analyze on the programs about order numbers
SpecOrder == InitOrder /\ [][Next]_vars

\* the ways the programs about i32 values write the type i32: the keyword, or the typedef I
I32TypeAt(alias, loc) == IF alias THEN TypeName(<<"I">>, loc) ELSE I32Type

\* one tree with the typedef "typedef i32 I", the constant c initialized with the
\* literal cv and the struct S whose one field has the default dv; each literal is on a
\* line of its own
I32Programs ==
    { << Tree("a", << TypedefNode(I32Type, Ident("I", 10)),
                      ConstNode(I32TypeAt(ca, 20), Ident("c", 20), LiteralNode(IntLit(cv, 21))),
                      StructNode("TOK_STRUCT", Ident("S", 30),
                                 << StructField(Some(IntLit(1, 31)), None, I32TypeAt(da, 31),
                                                Ident("x", 31),
                                                Some(LiteralNode(IntLit(dv, 32)))) >>) >>) >>
      : ca \in BOOLEAN, da \in BOOLEAN, cv \in LitValues, dv \in LitValues }

InitI32 == \E ts \in I32Programs : InitOn(ts)

\* Analyze on the programs about i32 values
SpecI32 == InitI32 /\ [][Next]_vars

\* the keyword void written at line loc
VoidAt(loc) == [k |-> "builtin", Tok |-> Keyword("TOK_VOID", loc)]

\* the types of the programs about void, written at line loc: without void, void
\* itself, void within a list or a map, and the typedef V of void, itself or in a list
VoidTypes(loc) ==
    { I32Type, ListType(I32Type), VoidAt(loc), ListType(VoidAt(loc)),
      MapType(VoidAt(loc), I32Type), MapType(I32Type, VoidAt(loc)),
      TypeName(<<"V">>, loc), ListType(TypeName(<<"V">>, loc)) }

\* one tree with "typedef void V", a struct of one field of type ft, and a service
\* whose method returns void and has one argument of type at
VoidPrograms ==
    { << Tree("a", << TypedefNode(VoidAt(10), Ident("V", 10)),
                      StructNode("TOK_STRUCT", Ident("S", 20),
                                 <<TypedField(1, ft, "x", 21)>>),
                      ServiceNode(Ident("Z", 30), None,
                                  << ServiceMethod(VoidAt(31), Ident("m", 31),
                                                   <<ServiceMethodArg(Some(IntLit(1, 32)), at,
                                                                      Ident("y", 32))>>,
                                                   <<>>) >>) >>) >>
      : ft \in VoidTypes(21), at \in VoidTypes(32) }

InitVoid == \E ts \in VoidPrograms : InitOn(ts)

\* Analyze on the programs about void
SpecVoid == InitVoid /\ [][Next]_vars

\* programs of one or two trees: the root is accepted ("ok") or has a struct that
\* type-check rejects ("order"), the tree it includes is accepted
ContextPrograms ==
    { [t \in 1..n |-> DriverTree(IF t = 1 THEN root ELSE "ok", t, n)]
      : root \in {"ok", "order"}, n \in 1..2 }

InitContext == \E ts \in ContextPrograms : InitOn(ts)

\* Analyze on these programs, with a client that calls the context between its turns
SpecContext == InitContext /\ [][NextContext]_vars

\* the paths of the references of the file "a" in the programs about dotted paths: its
\* own struct S, the name b (its include, or its own enum), b.S, b.S.x, a name the
\* include b lacks, a name that is nothing, and a path below it
DottedPaths ==
    {<<"S">>, <<"b">>, <<"b", "S">>, <<"b", "S", "x">>, <<"b", "Zz">>, <<"Zz">>,
     <<"Zz", "S">>}

\* the file "a": it includes the file b or not, it declares the struct S and, when
\* local, an enum b with the entry S, and a typedef for each of the paths refs
DottedTree(included, local, refs) ==
    ParseTree("a", "a",
              IF included THEN [name \in {"b"} |-> Include(StrLit(name, 1), 2)]
              ELSE EmptyMap,
              << StructNode("TOK_STRUCT", Ident("S", 10), <<PlainField(1, "x", 11)>>) >>
              \o (IF local
                  THEN << EnumNode(Ident("b", 20), <<EnumEntry(Ident("S", 21), None)>>) >>
                  ELSE <<>>)
              \o [i \in 1..Len(refs) |->
                    TypedefNode(TypeName(refs[i], 30 + i), Ident(Aliases[i], 30 + i))])

DottedPrograms ==
    { <<DottedTree(included, local, refs)>>
      \o (IF included THEN <<PlainTree("b", "b")>> ELSE <<>>)
      : included \in BOOLEAN, local \in BOOLEAN, refs \in SeqsUpTo(DottedPaths, MaxRefs) }

InitDotted == \E ts \in DottedPrograms : InitOn(ts)

\* Analyze on the programs about dotted paths
SpecDotted == InitDotted /\ [][Next]_vars

\* the paths a service of the file "a" extends: a service of the file, its struct, a
\* name that is nothing, and a service, a struct and a member of a service of the
\* include b
ExtendsPaths ==
    {<<"A">>, <<"B">>, <<"S">>, <<"Zz">>, <<"b", "C">>, <<"b", "S">>, <<"b", "C", "x">>}

\* what the service C of the file b extends: the service D, C itself, the struct S, a
\* name that is nothing
IncludedExtendsPaths == {<<"D">>, <<"C">>, <<"S">>, <<"Zz">>}

\* <<>> for a service that extends nothing, else the reference to path at loc
ExtendsOf(path, loc) == IF path = <<>> THEN None ELSE Some(TypeName(path, loc))

\* the file "a", which includes b, with its struct S and its services A and B, and the
\* file "b" with its struct S and its services C and D
ExtendsPrograms ==
    { << ParseTree("a", "a", [name \in {"b"} |-> Include(StrLit(name, 1), 2)],
                   << StructNode("TOK_STRUCT", Ident("S", 10), <<PlainField(1, "x", 11)>>),
                      ServiceNode(Ident("A", 20), ExtendsOf(extA, 21), <<>>),
                      ServiceNode(Ident("B", 30), ExtendsOf(extB, 31), <<>>) >>),
         ParseTree("b", "b", EmptyMap,
                   << StructNode("TOK_STRUCT", Ident("S", 10), <<PlainField(1, "x", 11)>>),
                      ServiceNode(Ident("C", 20), ExtendsOf(extC, 21), <<>>),
                      ServiceNode(Ident("D", 30), None, <<>>) >>) >>
      : extA \in {<<>>} \cup ExtendsPaths, extB \in {<<>>} \cup ExtendsPaths,
        extC \in {<<>>} \cup IncludedExtendsPaths }

InitExtends == \E ts \in ExtendsPrograms : InitOn(ts)

\* Analyze on the programs about what a service extends
SpecExtends == InitExtends /\ [][Next]_vars

----------------------------------------------------------------------------
(* What the claims read off a state *)

\* phase p (its name) has been invoked on tree t
Invoked(p, t) == \E k \in DOMAIN calls : calls[k].phase = p /\ calls[k].tree = t

\* the diagnostics reported at pos whose message is one of msgs
ErrorsAt(pos, msgs) ==
    {k \in DOMAIN context.Errors :
       context.Errors[k].Pos = pos /\ context.Errors[k].Message \in msgs}

\* the diagnostics whose message is one of msgs
ErrorsOf(msgs) == {k \in DOMAIN context.Errors : context.Errors[k].Message \in msgs}

\* the identifiers and the positions of the declarations of a scope, in declaration order
DeclIds(decls) == [i \in DOMAIN decls |-> Identifier(decls[i].Name)]
DeclLocs(decls) == [i \in DOMAIN decls |-> decls[i].Name.Loc]

\* the first declaration of a scope that has the name of declaration i
FirstDecl(ids, i) == CHOOSE j \in DOMAIN ids : ids[j] = ids[i] /\ \A k \in 1..(j - 1) : ids[k] # ids[i]

----------------------------------------------------------------------------
(* C9: enum values *)

\* the value C9 gives entry i: its explicit value, else 0 for the first entry, else the
\* final value of the entry before it plus one
ClaimedEnumValue(entries, i) ==
    IF entries[i].Value # None THEN IntLiteral(entries[i].Value[1])
    ELSE IF i = 1 THEN 0
    ELSE entries[i - 1].ConstVal + 1

\* C9: after the enter-symbols phase, in a tree the phase reported nothing for, every
\* enum entry has its explicit value when it has one, 0 when it is the first entry
\* without one, and otherwise the final value of the preceding entry plus one.
C9_EnumValues ==
    \A t \in DOMAIN trees :
      (Invoked("enterSymbols", t) /\ ~HasErrors(context)) =>
        \A n \in DOMAIN trees[t].Nodes :
          trees[t].Nodes[n].k = "enum" =>
            \A i \in DOMAIN trees[t].Nodes[n].Entries :
              trees[t].Nodes[n].Entries[i].ConstVal
                = ClaimedEnumValue(trees[t].Nodes[n].Entries, i)

\* an accepted enum with an entry without explicit value after an entry whose value is
\* the greatest int32
C9_Witness ==
    /\ Invoked("enterSymbols", 1) /\ ~HasErrors(context)
    /\ \E n \in DOMAIN trees[1].Nodes :
         /\ trees[1].Nodes[n].k = "enum"
         /\ \E i \in DOMAIN trees[1].Nodes[n].Entries :
              /\ i > 1
              /\ trees[1].Nodes[n].Entries[i].Value = None
              /\ trees[1].Nodes[n].Entries[i - 1].ConstVal = I32Max

----------------------------------------------------------------------------
(* C10: redeclarations *)

RedeclarationMessages == {"redeclared", "already declared"}

\* the declarations decls of one scope and the scope's name map names: the map holds
\* each declared name and maps it to its first declaration, and each later declaration
\* of the name has one redeclaration error, which names the first declaration's position
ScopeEntered(decls, names) ==
    /\ DOMAIN names = {Identifier(decls[i].Name) : i \in DOMAIN decls}
    /\ \A i \in DOMAIN decls :
         /\ names[DeclIds(decls)[i]] = FirstDecl(DeclIds(decls), i)
         /\ IF FirstDecl(DeclIds(decls), i) = i
            THEN ErrorsAt(DeclLocs(decls)[i], RedeclarationMessages) = {}
            ELSE /\ Cardinality(ErrorsAt(DeclLocs(decls)[i], RedeclarationMessages)) = 1
                 /\ \A k \in ErrorsAt(DeclLocs(decls)[i], RedeclarationMessages) :
                      /\ context.Errors[k].Prev
                           = DeclLocs(decls)[FirstDecl(DeclIds(decls), i)]
                      /\ context.Errors[k].Name = DeclIds(decls)[i]

\* C10: after enter-symbols on a tree, in every scope (the tree's top-level
\* declarations, the fields of a struct, the entries of an enum) each declaration after
\* the first of its name has exactly one redeclaration error, which identifies the first
\* declaration, and the scope's name map maps every name to its first declaration.
C10_Redeclaration ==
    \A t \in DOMAIN trees :
      Invoked("enterSymbols", t) =>
        /\ ScopeEntered(trees[t].Nodes, trees[t].Names)
        /\ \A n \in DOMAIN trees[t].Nodes :
             /\ trees[t].Nodes[n].k = "struct" =>
                  ScopeEntered(trees[t].Nodes[n].Fields, trees[t].Nodes[n].Names)
             /\ trees[t].Nodes[n].k = "enum" =>
                  ScopeEntered(trees[t].Nodes[n].Entries, trees[t].Nodes[n].Names)

\* a struct three fields of which share their name, after enter-symbols
C10_Witness ==
    /\ Invoked("enterSymbols", 1)
    /\ \E n \in DOMAIN trees[1].Nodes :
         /\ trees[1].Nodes[n].k = "struct"
         /\ Len(trees[1].Nodes[n].Fields) >= 3
         /\ \A i \in 1..3 : Identifier(trees[1].Nodes[n].Fields[i].Name)
                              = Identifier(trees[1].Nodes[n].Fields[1].Name)
         /\ Cardinality(ErrorsOf(RedeclarationMessages)) >= 2

----------------------------------------------------------------------------
(* C1, C2, C3: the phase driver *)

\* the order of the phases the claims state
ClaimedPhases == <<"enterSymbols", "bindNames", "typeCheck", "cyclicCheck", "checkUnused">>

\* the place of a phase in the claimed order
PhaseRank(p) == CHOOSE q \in DOMAIN ClaimedPhases : ClaimedPhases[q] = p

\* C1: the phases are invoked in the order enter-symbols, bind-names, type-check,
\* cyclic-check, check-unused, and whenever a phase is invoked on a tree, every phase
\* before it in that order has been invoked on every tree of the list already.
C1_PhaseBarrier ==
    \A k \in DOMAIN calls :
      /\ calls[k].phase \in {ClaimedPhases[q] : q \in DOMAIN ClaimedPhases}
      /\ \A q \in 1..(PhaseRank(calls[k].phase) - 1) :
           \A t \in DOMAIN trees :
             \E j \in 1..(k - 1) : calls[j].phase = ClaimedPhases[q] /\ calls[j].tree = t
      /\ \A j \in 1..(k - 1) : PhaseRank(calls[j].phase) <= PhaseRank(calls[k].phase)

\* the last phase has been invoked on the last of several trees
C1_Witness ==
    /\ Len(trees) >= 2
    /\ Invoked("checkUnused", Len(trees))

\* C2: when an invocation of a phase ends with a diagnostic in the context, it is the
\* last invocation and Analyze returns false; Analyze returns true only when every
\* phase has been invoked on every tree and no invocation left a diagnostic.
C2_DiagnosticHalts ==
    /\ \A k \in DOMAIN calls :
         calls[k].errors > 0 => (k = Len(calls) /\ pc = "done" /\ result = "false")
    /\ result = "true" =>
         /\ \A q \in DOMAIN ClaimedPhases : \A t \in DOMAIN trees :
              Invoked(ClaimedPhases[q], t)
         /\ \A k \in DOMAIN calls : calls[k].errors = 0
         /\ ~HasErrors(context)

\* Analyze has returned false after the type-check phase left a diagnostic, and no
\* later phase was invoked
C2_Witness ==
    /\ pc = "done" /\ result = "false"
    /\ calls[Len(calls)].phase = "typeCheck"
    /\ calls[Len(calls)].errors > 0
    /\ Len(trees) >= 2

\* the trees a phase has been invoked on
InvokedOn(p) == {t \in DOMAIN trees : Invoked(p, t)}

\* the number of diagnostics the invocation of phase p on tree t left
ErrorsAfter(p, t) ==
    (CHOOSE c \in {calls[k] : k \in DOMAIN calls} : c.phase = p /\ c.tree = t).errors

----------------------------------------------------------------------------
(* C4: unused includes *)

\* some reference of tree t is resolved through its include name: the root of its path
\* is no top-level name of t, it is name, and the path goes on into the package
ReferencedThrough(t, name) ==
    \E n \in DOMAIN trees[t].Nodes :
      /\ trees[t].Nodes[n].k = "typedef"
      /\ trees[t].Nodes[n].Type.k = "name"
      /\ Identifier(trees[t].Nodes[n].Type.Path[1]) = name
      /\ Len(trees[t].Nodes[n].Type.Path) >= 2
      /\ name \notin DOMAIN trees[t].Names

\* C4: after check-unused on a file, an unused-include error is reported for an include
\* of the file if and only if no reference of the file was resolved through that
\* include, whatever references the file makes to its own declarations.
C4_UnusedIff ==
    \A t \in DOMAIN trees :
      Invoked("checkUnused", t) =>
        \A name \in DOMAIN trees[t].Includes :
          (ErrorsAt(trees[t].Includes[name].Tok.Loc, {"include is unused"}) # {})
            <=> ~ReferencedThrough(t, name)

\* check-unused has run on a file that references a declaration of its own and has an
\* include it never references, whose name is the file's own package name
C4_Witness ==
    /\ Invoked("checkUnused", 1)
    /\ \E name \in DOMAIN trees[1].Includes :
         /\ name = trees[1].Package
         /\ ~ReferencedThrough(1, name)
    /\ \E n \in DOMAIN trees[1].Nodes :
         /\ trees[1].Nodes[n].k = "typedef"
         /\ trees[1].Nodes[n].Type.Import = None
         /\ trees[1].Nodes[n].Type.Binding # None

----------------------------------------------------------------------------
(* C5: cyclic service inheritance *)

\* the service (its pointer) reached from the service ptr by following k extends
\* bindings, None when the chain ends before
RECURSIVE ExtendsChain(_, _)
ExtendsChain(ptr, k) ==
    IF k = 0 THEN Some(ptr)
    ELSE IF Deref(trees, ptr).Extends = None THEN None
    ELSE IF Deref(trees, ptr).Extends[1].Binding = None THEN None
    ELSE ExtendsChain(Deref(trees, ptr).Extends[1].Binding[1], k - 1)

\* the number of top-level nodes of the program: no chain without a repetition is longer
RECURSIVE SumNodes(_)
SumNodes(ts) == IF ts = <<>> THEN 0 ELSE Len(Head(ts).Nodes) + SumNodes(Tail(ts))

\* following the extends bindings from the service ptr returns to it
ReturnsToItself(ptr) ==
    \E k \in 1..SumNodes(trees) : ExtendsChain(ptr, k) = Some(ptr)

\* C5: after cyclic-check on a tree, a cyclic-extension error is recorded for a service
\* S of the tree that has an extends reference if and only if following the extends
\* bindings from S returns to S; none is recorded when the chain reaches a service
\* without extends.
C5_CyclicIff ==
    \A t \in DOMAIN trees :
      Invoked("cyclicCheck", t) =>
        \A n \in DOMAIN trees[t].Nodes :
          (trees[t].Nodes[n].k = "service" /\ trees[t].Nodes[n].Extends # None) =>
            ((ErrorsAt(NodeLoc(trees[t].Nodes[n].Extends[1]),
                       {"service extension is cyclic"}) # {})
               <=> ReturnsToItself([T |-> t, N |-> n]))

\* cyclic-check has been invoked on a tree whose first service extends a service that
\* is on a cycle the first service is not on
C5_Witness ==
    /\ Invoked("cyclicCheck", 1)
    /\ trees[1].Nodes[1].k = "service"
    /\ trees[1].Nodes[1].Extends # None
    /\ ~ReturnsToItself([T |-> 1, N |-> 1])
    /\ ReturnsToItself(trees[1].Nodes[1].Extends[1].Binding[1])

----------------------------------------------------------------------------
(* C6: cyclic structs *)

\* the structs (their pointers) a type names, typedefs unwrapped and the element types
\* of lists and maps traversed
RECURSIVE TypeStructs(_)
TypeStructs(ttype) ==
    CASE ttype.k = "list" -> TypeStructs(ttype.Inner)
      [] ttype.k = "map" -> TypeStructs(ttype.Key) \cup TypeStructs(ttype.Value)
      [] ttype.k = "name" ->
           IF ttype.Binding = None THEN {}
           ELSE IF Deref(trees, ttype.Binding[1]).k = "typedef"
           THEN TypeStructs(Deref(trees, ttype.Binding[1]).Type)
           ELSE IF Deref(trees, ttype.Binding[1]).k = "struct" THEN {ttype.Binding[1]}
           ELSE {}
      [] OTHER -> {}

\* the structs the field types of the structs X name
FieldStructs(X) ==
    UNION {UNION {TypeStructs(Deref(trees, x).Fields[i].Type) :
                    i \in DOMAIN Deref(trees, x).Fields} : x \in X}

\* X and the structs reached from X through the fields of nested structs in k steps
RECURSIVE ReachedWithin(_, _)
ReachedWithin(X, k) == IF k = 0 THEN X ELSE ReachedWithin(X \cup FieldStructs(X), k - 1)

\* the fields of the struct ptr whose type reaches the struct itself
OffendingFields(ptr) ==
    {i \in DOMAIN Deref(trees, ptr).Fields :
       ptr \in ReachedWithin(TypeStructs(Deref(trees, ptr).Fields[i].Type), SumNodes(trees))}

\* the cyclic-reference errors recorded for the struct ptr: those at one of its fields
CyclicErrors(ptr) ==
    {k \in ErrorsOf({"introduces a cyclic reference"}) :
       \E i \in DOMAIN Deref(trees, ptr).Fields :
         context.Errors[k].Pos = Deref(trees, ptr).Fields[i].Name.Loc}

\* C6: after cyclic-check on a tree, a struct S of the tree has a cyclic-reference error
\* if and only if some field type of S reaches S through typedefs, list and map element
\* types and the fields of nested structs; then it has exactly one, on the first such
\* field in declaration order, and a struct that is not recursive has none.
C6_CyclicStructIff ==
    \A t \in DOMAIN trees :
      Invoked("cyclicCheck", t) =>
        \A n \in DOMAIN trees[t].Nodes :
          trees[t].Nodes[n].k = "struct" =>
            IF OffendingFields([T |-> t, N |-> n]) = {}
            THEN CyclicErrors([T |-> t, N |-> n]) = {}
            ELSE /\ Cardinality(CyclicErrors([T |-> t, N |-> n])) = 1
                 /\ \A k \in CyclicErrors([T |-> t, N |-> n]) :
                      \A i \in OffendingFields([T |-> t, N |-> n]) :
                        context.Errors[k].Pos
                          <= trees[t].Nodes[n].Fields[i].Name.Loc

\* cyclic-check has been invoked on a tree whose first struct S reaches itself through
\* its second field, while its first field has the type of a struct that reaches itself
\* without reaching S
C6_Witness ==
    /\ Invoked("cyclicCheck", 1)
    /\ trees[1].Nodes[1].k = "struct"
    /\ OffendingFields([T |-> 1, N |-> 1]) = {2}
    /\ \E x \in TypeStructs(trees[1].Nodes[1].Fields[1].Type) :
         x \in ReachedWithin(FieldStructs({x}), SumNodes(trees))

----------------------------------------------------------------------------
(* C7: required fields of a struct initializer *)

\* the constants of tree t whose type is bound to a struct
StructConsts(t) ==
    {n \in DOMAIN trees[t].Nodes :
       /\ trees[t].Nodes[n].k = "const"
       /\ trees[t].Nodes[n].Type.k = "name"
       /\ BindingKind(trees, trees[t].Nodes[n].Type.Binding) = "struct"}

\* the initializer the constant was written with: type-check wraps it in a value node
WrittenInit(const) == IF const.Init.k = "value" THEN const.Init.Node ELSE const.Init

\* the field names the initializer of the constant has an entry for
InitKeys(const) ==
    {StringLiteral(WrittenInit(const).Entries[i].Key.Lit) :
       i \in DOMAIN WrittenInit(const).Entries}

\* a missing-required-field error is reported for the field of the given name
MissingReported(name) ==
    \E k \in ErrorsOf({"required field is not initialized"}) : context.Errors[k].Name = name

\* C7: after type-check of a constant of struct type S whose initializer is a map of
\* field names to well-typed values, a missing-required-field error is reported for a
\* field f of S if and only if f is declared required, has no default value and has no
\* entry in the initializer; a field not declared required is never reported.
C7_MissingRequiredIff ==
    \A t \in DOMAIN trees :
      Invoked("typeCheck", t) =>
        \A n \in StructConsts(t) :
          \A i \in DOMAIN Deref(trees, trees[t].Nodes[n].Type.Binding[1]).Fields :
            MissingReported(Identifier(
                Deref(trees, trees[t].Nodes[n].Type.Binding[1]).Fields[i].Name))
            <=> /\ Deref(trees, trees[t].Nodes[n].Type.Binding[1]).Fields[i].Spec # None
                /\ Deref(trees, trees[t].Nodes[n].Type.Binding[1]).Fields[i].Spec[1].Kind
                     = "TOK_REQUIRED"
                /\ Deref(trees, trees[t].Nodes[n].Type.Binding[1]).Fields[i].Default = None
                /\ Identifier(Deref(trees, trees[t].Nodes[n].Type.Binding[1]).Fields[i].Name)
                     \notin InitKeys(trees[t].Nodes[n])

\* type-check has run on a constant whose struct has a field without qualifier and
\* without default that the initializer leaves out
C7_Witness ==
    /\ Invoked("typeCheck", 1)
    /\ \E n \in StructConsts(1) :
         \E i \in DOMAIN Deref(trees, trees[1].Nodes[n].Type.Binding[1]).Fields :
           /\ Deref(trees, trees[1].Nodes[n].Type.Binding[1]).Fields[i].Spec = None
           /\ Deref(trees, trees[1].Nodes[n].Type.Binding[1]).Fields[i].Default = None
           /\ Identifier(Deref(trees, trees[1].Nodes[n].Type.Binding[1]).Fields[i].Name)
                \notin InitKeys(trees[1].Nodes[n])

----------------------------------------------------------------------------
(* C8: initializers of enum type *)

\* the enum (its pointer, in a sequence) the type names, typedefs unwrapped; <<>> when
\* it names no enum
RECURSIVE NamedEnum(_)
NamedEnum(ttype) ==
    IF ttype.k # "name" \/ ttype.Binding = None THEN <<>>
    ELSE IF Deref(trees, ttype.Binding[1]).k = "typedef"
    THEN NamedEnum(Deref(trees, ttype.Binding[1]).Type)
    ELSE IF Deref(trees, ttype.Binding[1]).k = "enum" THEN ttype.Binding
    ELSE <<>>

\* the constants of tree t whose type names an enum
EnumConsts(t) ==
    {n \in DOMAIN trees[t].Nodes :
       trees[t].Nodes[n].k = "const" /\ NamedEnum(trees[t].Nodes[n].Type) # <<>>}

\* the entries of the enum ptr that have the given name
MembersNamed(ptr, name) ==
    {i \in DOMAIN Deref(trees, ptr).Entries :
       Identifier(Deref(trees, ptr).Entries[i].Name) = name}

\* the initializer is a name bound to the enum ptr itself, with exactly one trailing
\* component, which names a member of the enum
IsMemberReference(ptr, init) ==
    /\ init.k = "name"
    /\ init.Binding = Some(ptr)
    /\ Len(init.Tail) = 1
    /\ MembersNamed(ptr, Identifier(init.Tail[1])) # {}

\* what type-check leaves for the initializer init of a constant of enum type ptr, as
\* C8 has it: the member's entry, whose value is its place among the members (they have
\* no explicit values), and no diagnostic; or no value and a diagnostic at the initializer
EnumInitChecked(ptr, init, after, errors) ==
    IF IsMemberReference(ptr, init)
    THEN /\ after.k = "value" /\ after.Kind = "TOK_ENUM"
         /\ after.Node = init
         /\ after.Value.Enum = ptr
         /\ after.Value.Entry \in MembersNamed(ptr, Identifier(init.Tail[1]))
         /\ Deref(trees, ptr).Entries[after.Value.Entry].ConstVal = after.Value.Entry - 1
         /\ errors = context.Errors
    ELSE /\ after = NilValueNode
         /\ Len(errors) = Len(context.Errors) + 1
         /\ errors[Len(errors)].Pos = NodeLoc(init)

\* C8: type-check of a constant of a named enum type E yields a value if and only if
\* the initializer is a name bound to E itself with exactly one trailing component that
\* names a member of E, and the value is then that member's entry (the second member of
\* an enum without explicit values has the value 1); every other initializer (the enum
\* without a member, more than one trailing component, an unknown member, a member of
\* another enum, no name at all) records an error and yields no value.
C8_EnumInitIff ==
    [][(pc = "running" /\ phase = 3) =>
         \A n \in EnumConsts(treeIdx) :
           EnumInitChecked(NamedEnum(trees[treeIdx].Nodes[n].Type)[1],
                           trees[treeIdx].Nodes[n].Init,
                           trees'[treeIdx].Nodes[n].Init,
                           context'.Errors)]_vars

\* type-check has accepted the second member of the enum Color of three members as the
\* initializer of a constant whose type is a typedef of Color
C8_Witness ==
    /\ Invoked("typeCheck", 1)
    /\ \E n \in EnumConsts(1) :
         /\ Deref(trees, trees[1].Nodes[n].Type.Binding[1]).k = "typedef"
         /\ trees[1].Nodes[n].Init.k = "value"
         /\ trees[1].Nodes[n].Init.Kind = "TOK_ENUM"
         /\ trees[1].Nodes[n].Init.Value.Entry = 2
         /\ Len(Deref(trees, trees[1].Nodes[n].Init.Value.Enum).Entries) = 3
         /\ Deref(trees, trees[1].Nodes[n].Init.Value.Enum).Entries[2].ConstVal = 1

----------------------------------------------------------------------------
(* C11: order numbers *)

\* the order token and the name token of each item of a list of fields or arguments
OrderItems(items) == [i \in DOMAIN items |-> [Order |-> items[i].Order, Name |-> items[i].Name]]

\* the lists of tree t that carry order numbers: the fields of each struct, the
\* arguments of each method, the exceptions of each method
OrderedLists(t) ==
    { OrderItems(trees[t].Nodes[n].Fields)
      : n \in {m \in DOMAIN trees[t].Nodes : trees[t].Nodes[m].k = "struct"} }
    \cup UNION { UNION { { OrderItems(trees[t].Nodes[n].Methods[m].Args),
                          OrderItems(trees[t].Nodes[n].Methods[m].Throws) }
                        : m \in DOMAIN trees[t].Nodes[n].Methods }
                : n \in {m \in DOMAIN trees[t].Nodes : trees[t].Nodes[m].k = "service"} }

\* item i has the order number of an item before it
OrderRepeated(items, i) ==
    /\ items[i].Order # None
    /\ \E j \in 1..(i - 1) :
         items[j].Order # None /\ IntLiteral(items[j].Order[1]) = IntLiteral(items[i].Order[1])

OrderMessages == {"should have an explicit order", "has the same ordering", "must be greater than 0"}

\* the order number does not fit in an int32: toI32 reports that, and nothing else is
\* looked at
OrderTooWide == {"does not fit in a 32-bit integer"}

\* C11: once type-check has run on a tree, in each list of struct fields, of method
\* arguments and of method exceptions, an item without order number has a missing-order
\* diagnostic, an item whose order number is not positive has a diagnostic (non-positive
\* order, or out of the 32-bit range), an item whose order number is that of an earlier
\* item of the list has a diagnostic (same ordering, or out of the 32-bit range); and a
\* list whose order numbers are all present, positive and distinct has no missing-order,
\* same-ordering or non-positive-order diagnostic.
C11_OrderNumbers ==
    \A t \in DOMAIN trees :
      Invoked("typeCheck", t) =>
        \A items \in OrderedLists(t) :
          /\ \A i \in DOMAIN items :
                /\ items[i].Order = None =>
                     ErrorsAt(items[i].Name.Loc, {"should have an explicit order"}) # {}
                /\ (items[i].Order # None /\ IntLiteral(items[i].Order[1]) <= 0) =>
                     ErrorsAt(items[i].Order[1].Loc,
                              {"must be greater than 0"} \cup OrderTooWide) # {}
                /\ OrderRepeated(items, i) =>
                     ErrorsAt(items[i].Order[1].Loc,
                              {"has the same ordering"} \cup OrderTooWide) # {}
                /\ (items[i].Order # None
                    /\ ToInt32(IntLiteral(items[i].Order[1])) = IntLiteral(items[i].Order[1])) =>
                     /\ IntLiteral(items[i].Order[1]) <= 0 =>
                          ErrorsAt(items[i].Order[1].Loc, {"must be greater than 0"}) # {}
                     /\ OrderRepeated(items, i) =>
                          ErrorsAt(items[i].Order[1].Loc, {"has the same ordering"}) # {}
          /\ (\A i \in DOMAIN items :
                /\ items[i].Order # None
                /\ IntLiteral(items[i].Order[1]) > 0
                /\ ~OrderRepeated(items, i))
             => \A i \in DOMAIN items : ErrorsAt(items[i].Name.Loc, OrderMessages) = {}

\* type-check has run on a struct two fields of which have the same positive order
\* number, and the second of them is reported
C11_Witness ==
    /\ Invoked("typeCheck", 1)
    /\ trees[1].Nodes[1].k = "struct"
    /\ \E i \in DOMAIN trees[1].Nodes[1].Fields :
         /\ OrderRepeated(trees[1].Nodes[1].Fields, i)
         /\ IntLiteral(trees[1].Nodes[1].Fields[i].Order[1]) \in 1..I32Max
         /\ ErrorsAt(trees[1].Nodes[1].Fields[i].Name.Loc, {"has the same ordering"}) # {}

----------------------------------------------------------------------------
(* C12: i32 literals *)

\* the type is i32 once the typedefs are unwrapped
IsI32(ttype) ==
    /\ Resolve(trees, ttype).Type.k = "builtin"
    /\ Resolve(trees, ttype).Type.Tok.Kind = "TOK_I32"

\* the places of tree t that hold an integer literal for an i32: the initializer of a
\* constant (<<n>>) and the default of a struct field (<<n, i>>)
I32Sites(t) ==
    { <<n>> : n \in {m \in DOMAIN trees[t].Nodes :
                        /\ trees[t].Nodes[m].k = "const"
                        /\ IsI32(trees[t].Nodes[m].Type)
                        /\ trees[t].Nodes[m].Init.k = "literal"
                        /\ trees[t].Nodes[m].Init.Lit.Kind = "TOK_LITERAL_INT"} }
    \cup UNION { { <<n, i>> : i \in {j \in DOMAIN trees[t].Nodes[n].Fields :
                                       /\ IsI32(trees[t].Nodes[n].Fields[j].Type)
                                       /\ trees[t].Nodes[n].Fields[j].Default # None
                                       /\ trees[t].Nodes[n].Fields[j].Default[1].k = "literal"
                                       /\ trees[t].Nodes[n].Fields[j].Default[1].Lit.Kind
                                            = "TOK_LITERAL_INT"} }
                : n \in {m \in DOMAIN trees[t].Nodes : trees[t].Nodes[m].k = "struct"} }

\* what the place holds in the trees ts
SiteValue(ts, t, site) ==
    IF Len(site) = 1 THEN ts[t].Nodes[site[1]].Init
    ELSE ts[t].Nodes[site[1]].Fields[site[2]].Default[1]

\* what type-check leaves for the literal lit of an i32, as C12 has it: the value of
\* the literal and no diagnostic when it is in the 32-bit range, else no value and a
\* range diagnostic at the literal
I32Checked(lit, after, errors) ==
    IF IntLiteral(lit.Lit) \in I32Min..I32Max
    THEN /\ after = ValueNode(lit, "TOK_I32", IntLiteral(lit.Lit))
         /\ \A k \in DOMAIN errors : errors[k].Pos # lit.Lit.Loc
    ELSE /\ after = NilValueNode
         /\ \E k \in DOMAIN errors :
              /\ errors[k].Pos = lit.Lit.Loc
              /\ errors[k].Message = "does not fit in a 32-bit integer"

\* C12: type-check of a constant or of a field default whose type is i32 (typedefs
\* unwrapped) and whose value is an integer literal rejects a literal outside the signed
\* 32-bit range with a range error and leaves no value, and accepts a literal inside the
\* range, leaving a 32-bit value equal to the literal.
C12_I32Range ==
    [][(pc = "running" /\ phase = 3) =>
         \A site \in I32Sites(treeIdx) :
           I32Checked(SiteValue(trees, treeIdx, site), SiteValue(trees', treeIdx, site),
                      context'.Errors)]_vars

\* type-check has rejected the initializer of the constant, which is beyond the range,
\* and accepted the default of the field, which is the least 32-bit integer and is
\* written for a typedef of i32
C12_Witness ==
    /\ Invoked("typeCheck", 1)
    /\ trees[1].Nodes[2].k = "const"
    /\ trees[1].Nodes[2].Init = NilValueNode
    /\ ErrorsAt(21, {"does not fit in a 32-bit integer"}) # {}
    /\ trees[1].Nodes[3].k = "struct"
    /\ trees[1].Nodes[3].Fields[1].Type.k = "name"
    /\ trees[1].Nodes[3].Fields[1].Default[1].k = "value"
    /\ trees[1].Nodes[3].Fields[1].Default[1].Kind = "TOK_I32"
    /\ trees[1].Nodes[3].Fields[1].Default[1].Value = I32Min

----------------------------------------------------------------------------
(* C13: void *)

\* the positions of the void keywords the type reaches: itself, through typedefs, and
\* as the element of a list or the key or the value of a map
RECURSIVE VoidsIn(_)
VoidsIn(ttype) ==
    CASE ttype.k = "builtin" -> IF ttype.Tok.Kind = "TOK_VOID" THEN {ttype.Tok.Loc} ELSE {}
      [] ttype.k = "list" -> VoidsIn(ttype.Inner)
      [] ttype.k = "map" -> VoidsIn(ttype.Key) \cup VoidsIn(ttype.Value)
      [] ttype.k = "name" ->
           IF ttype.Binding # None /\ Deref(trees, ttype.Binding[1]).k = "typedef"
           THEN VoidsIn(Deref(trees, ttype.Binding[1]).Type)
           ELSE {}

\* the types of the struct fields and of the method arguments of tree t
FieldAndArgTypes(t) ==
    UNION { { trees[t].Nodes[n].Fields[i].Type : i \in DOMAIN trees[t].Nodes[n].Fields }
            : n \in {m \in DOMAIN trees[t].Nodes : trees[t].Nodes[m].k = "struct"} }
    \cup UNION { UNION { { trees[t].Nodes[n].Methods[m].Args[i].Type
                          : i \in DOMAIN trees[t].Nodes[n].Methods[m].Args }
                        : m \in DOMAIN trees[t].Nodes[n].Methods }
                : n \in {m \in DOMAIN trees[t].Nodes : trees[t].Nodes[m].k = "service"} }

VoidMessages == {"void can only be used as a return type"}

\* C13: once type-check has run on a tree, every struct field type and every method
\* argument type that is void, typedefs unwrapped, or that holds void as the element of
\* a list or as the key or the value of a map, has a void diagnostic.
C13_VoidRejected ==
    \A t \in DOMAIN trees :
      Invoked("typeCheck", t) =>
        \A ttype \in FieldAndArgTypes(t) :
          \A pos \in VoidsIn(ttype) : ErrorsAt(pos, VoidMessages) # {}

\* void that is the type itself, typedefs unwrapped, has its diagnostic
C13_BareVoidRejected ==
    \A t \in DOMAIN trees :
      Invoked("typeCheck", t) =>
        \A ttype \in FieldAndArgTypes(t) :
          ttype.k \in {"builtin", "name"} =>
            \A pos \in VoidsIn(ttype) : ErrorsAt(pos, VoidMessages) # {}

\* type-check has accepted a program whose struct has a field of type list<void>
C13_Witness ==
    /\ Invoked("typeCheck", 1)
    /\ \E ttype \in FieldAndArgTypes(1) : ttype.k = "list" /\ VoidsIn(ttype) # {}
    /\ context.Errors = <<>>

----------------------------------------------------------------------------
(* C14: Enter is not reentrant *)

\* call k is a call of Enter, by the client or by the driver for the phase it runs
IsEnter(k) == calls[k].tree # 0 \/ calls[k].phase = "Enter"

\* call k of Enter panicked: the driver's panic ends the run
EnterPanicked(k) ==
    IF calls[k].tree = 0 THEN calls[k].panicked ELSE k = Len(calls) /\ pc = "panic"

\* before call k the client has entered one of files and not left it: an Enter of the
\* client that did not panic, with no Leave after it (the driver leaves what it enters)
EnteredBefore(k, files) ==
    \E i \in 1..(k - 1) :
      /\ calls[i].tree = 0 /\ calls[i].phase = "Enter" /\ ~calls[i].panicked
      /\ calls[i].file \in files
      /\ \A j \in (i + 1)..(k - 1) : ~(calls[j].tree = 0 /\ calls[j].phase = "Leave")

\* C14: every call of Enter made while a file is entered, that is after an Enter(f) that
\* no Leave has followed, panics, whatever the file name f, the empty string included.
C14_EnterPanicsWhenEntered ==
    \A k \in DOMAIN calls : (IsEnter(k) /\ EnteredBefore(k, Files)) => EnterPanicked(k)

\* the same for the files whose name is not the empty string
C14_EnterPanicsWhenNamedEntered ==
    \A k \in DOMAIN calls :
      IsEnter(k) => (EnterPanicked(k) <=> EnteredBefore(k, Files \ {""}))

\* the client has entered the file "" and then, without a Leave, the file "a", and the
\* second Enter did not panic
C14_Witness ==
    \E k \in DOMAIN calls :
      /\ k > 1
      /\ calls[k - 1].tree = 0 /\ calls[k - 1].phase = "Enter" /\ calls[k - 1].file = ""
      /\ calls[k].tree = 0 /\ calls[k].phase = "Enter" /\ calls[k].file = "a"
      /\ ~calls[k].panicked
      /\ context.CurFile = "a"

----------------------------------------------------------------------------
(* C15: the diagnostics are only appended to *)

\* the step is a call or a turn of the driver, and the history tells which
Called(op) == Len(calls') = Len(calls) + 1 /\ calls'[Len(calls')].phase = op
DriverTurn == Len(calls') = Len(calls) + 1 /\ calls'[Len(calls')].tree # 0

\* the diagnostics the step adds
NewErrors == (Len(context.Errors) + 1)..Len(context'.Errors)

\* C15: no step removes, reorders or changes a recorded diagnostic; a ReportError of
\* the client appends exactly one diagnostic, whose file is the file entered at that
\* moment; every diagnostic a turn of the driver adds carries the path of the tree the
\* phase is run on, and a turn that returns leaves no file entered.
C15_AppendOnly ==
    [][/\ Len(context'.Errors) >= Len(context.Errors)
       /\ SubSeq(context'.Errors, 1, Len(context.Errors)) = context.Errors
       /\ Called("ReportError") =>
            /\ Len(context'.Errors) = Len(context.Errors) + 1
            /\ context'.Errors[Len(context'.Errors)].File = context.CurFile
       /\ DriverTurn =>
            /\ \A k \in NewErrors : context'.Errors[k].File = trees[treeIdx].Path
            /\ pc' \in {"running", "done"} => context'.CurFile = ""
       /\ (~Called("ReportError") /\ ~DriverTurn) => NewErrors = {}]_vars

\* the client reported a diagnostic while it had the file "a" entered, left the file,
\* and a phase of the driver then added a diagnostic of its own
C15_Witness ==
    /\ Len(context.Errors) >= 2
    /\ context.Errors[1].Message = "reported by the client"
    /\ context.Errors[1].File = "a"
    /\ context.Errors[2].Message = "should have an explicit order"
    /\ context.Errors[2].File = trees[1].Path
    /\ context.CurFile = ""

----------------------------------------------------------------------------
(* C20: the service-inheritance check terminates *)

\* the services of tree t whose extends chain runs into a cycle they are not on
LeadsToCycle(t) ==
    {n \in DOMAIN trees[t].Nodes :
       /\ trees[t].Nodes[n].k = "service"
       /\ ~ReturnsToItself([T |-> t, N |-> n])
       /\ \E k \in 1..SumNodes(trees) :
            /\ ExtendsChain([T |-> t, N |-> n], k) # None
            /\ ReturnsToItself(ExtendsChain([T |-> t, N |-> n], k)[1])}

\* C20: the cyclic-check phase returns on every tree it is invoked on, whatever the
\* extends chains of its services: no walk of a chain goes on without end.
C20_ServiceCheckTerminates ==
    \A k \in DOMAIN calls : calls[k].phase = "cyclicCheck" => pc # "hung"

\* the walk goes on without end exactly when a service of the tree leads to a cycle it
\* is not on
C20_HangsIffLeadsToCycle ==
    \A t \in DOMAIN trees :
      Invoked("cyclicCheck", t) => (pc = "hung" <=> LeadsToCycle(t) # {})

\* cyclic-check was invoked on "A extends B, B extends C, C extends B" and never returned
C20_Witness ==
    /\ pc = "hung"
    /\ Len(trees[1].Nodes) = 3
    /\ 1 \in LeadsToCycle(1)
    /\ trees[1].Nodes[1].Extends[1].Binding = Some([T |-> 1, N |-> 2])
    /\ trees[1].Nodes[2].Extends[1].Binding = Some([T |-> 1, N |-> 3])
    /\ trees[1].Nodes[3].Extends[1].Binding = Some([T |-> 1, N |-> 2])

----------------------------------------------------------------------------
(* C16: what Get returns after a Put *)

\* entry i of the history is a Put with a nil error into an open pool that held fewer
\* than maxIdle idle connections
PutIntoOpenPool(i) ==
    /\ poolLog[i].op = "Put"
    /\ ~poolLog[i].err
    /\ ~poolLog[i].closed
    /\ poolLog[i].idle < pool.maxIdle

\* the connection of the Put of entry i is idle from that Put to entry j: no Get has
\* taken it and no Close has been made in between
StillIdle(i, j) ==
    /\ i < j
    /\ PutIntoOpenPool(i)
    /\ \A k \in (i + 1)..(j - 1) :
         /\ poolLog[k].op # "Close"
         /\ ~(poolLog[k].op = "Get" /\ poolLog[k].free = poolLog[i].sap)

\* the Puts whose connections are idle when the call of entry j has the lock
IdleAt(j) == {i \in 1..(j - 1) : StillIdle(i, j)}

\* the latest of the entries es
Latest(es) == CHOOSE i \in es : \A k \in es : k <= i

\* entry j is a Get made on an open pool
GetFromOpenPool(j) == poolLog[j].op = "Get" /\ poolLog[j].err # "ErrPoolClosed"

----------------------------------------------------------------------------
(* C17: the pool caches at most maxIdle connections *)

\* the connection sap is cached by the pool
IsCached(sap) == \E k \in DOMAIN pool.connections : pool.connections[k] = sap

\* entry i of the history is a Put that was made while the pool was full, with a
\* non-nil error, or after Close
PutToDiscard(i) ==
    /\ poolLog[i].op = "Put"
    /\ \/ poolLog[i].idle >= pool.maxIdle
       \/ poolLog[i].err
       \/ poolLog[i].closed

----------------------------------------------------------------------------
(* C18: the pool after Close *)

\* entry i of the history is a Close that has returned
CloseReturned(i) == poolLog[i].op = "Close"

----------------------------------------------------------------------------
(* C19: an unverified socket whose peer has closed dials again *)

\* the step is a Flush or a Read of an open, unverified socket whose peer has closed
\* the connection, and the write or the read of that connection fails in it
FailsUnverified ==
    /\ socket # <<>>
    /\ socket.closed = ""
    /\ ~socket.verified
    /\ CurrentConn.peer = "closed"
    /\ socket' # socket
    /\ returned'.op \in {"Flush", "Read"}
    /\ returned'.failed # ""

\* the step has dialled the socket's address
DialsAgain == returned'.dialed /\ returned'.addr = socket.hostAndPort

\* the dial of the step has succeeded: there is a new connection, to that address
DialSucceeds ==
    /\ Len(conns') = Len(conns) + 1
    /\ conns'[Len(conns')].addr = socket.hostAndPort
    /\ socket'.cn = Len(conns')

\* the socket is open and verified after the step
OpenAndVerified == socket'.closed = "" /\ socket'.verified

\* the step has returned bytes that were received on the new connection
ReturnsNewData ==
    /\ returned'.err = ""
    /\ returned'.n > 0
    /\ Len(returned'.data) = returned'.n
    /\ \A i \in DOMAIN returned'.data : returned'.data[i] = Len(conns')

\* the chunks the socket has to resend in the step: those of its resend buffer and,
\* in a Flush, the one being flushed
ToResend == Len(socket.resendBuffer) + (IF returned'.op = "Flush" THEN 1 ELSE 0)

----------------------------------------------------------------------------
(* C21: the struct-cycle check terminates *)

\* the structs that reach themselves through the fields of nested structs
RecursiveStructs(X) == {x \in X : x \in ReachedWithin(FieldStructs({x}), SumNodes(trees))}

\* the struct ptr is not recursive, and a field of it has the type of a recursive struct
\* that does not reach ptr
NestsRecursive(ptr) ==
    /\ OffendingFields(ptr) = {}
    /\ \E i \in DOMAIN Deref(trees, ptr).Fields :
         \E x \in RecursiveStructs(TypeStructs(Deref(trees, ptr).Fields[i].Type)) :
           ptr \notin ReachedWithin({x}, SumNodes(trees))

\* C21: the cyclic-check phase returns on every tree that passed type checking,
\* whatever the structs of the tree nest: no search of a field type goes on without end.
C21_StructCheckTerminates ==
    \A k \in DOMAIN calls : calls[k].phase = "cyclicCheck" => pc # "overflow"

\* cyclic-check was invoked on a tree whose first struct is not recursive and has a
\* field of a recursive struct type, and the search of that field never returned
C21_Witness ==
    /\ pc = "overflow"
    /\ Invoked("cyclicCheck", 1)
    /\ context.Errors = <<>>
    /\ trees[1].Nodes[1].k = "struct"
    /\ NestsRecursive([T |-> 1, N |-> 1])

----------------------------------------------------------------------------
(* C22: the binding of a dotted path *)

\* the top-level declaration of tree t that is named name, as a pointer; none is None
TopLevel(t, name) ==
    IF \E n \in DOMAIN trees[t].Nodes : Identifier(trees[t].Nodes[n].Name) = name
    THEN Some([T |-> t,
               N |-> CHOOSE n \in DOMAIN trees[t].Nodes :
                       Identifier(trees[t].Nodes[n].Name) = name])
    ELSE None

\* the components of a path after the first n
PathAfter(path, n) == [i \in 1..(Len(path) - n) |-> path[i + n]]

\* what the rule gives the path of a reference of tree t: a binding and a tail, or a
\* failure (no binding, no tail)
Bound(binding, tail) == [Binding |-> binding, Tail |-> tail]
Unbound == Bound(None, <<>>)

PathRule(t, path) ==
    IF TopLevel(t, Identifier(path[1])) # None
    THEN Bound(TopLevel(t, Identifier(path[1])), PathAfter(path, 1))
    ELSE IF Identifier(path[1]) \in DOMAIN trees[t].Includes
    THEN IF Len(path) = 1 THEN Unbound
         ELSE IF TopLevel(trees[t].Includes[Identifier(path[1])].Tree,
                          Identifier(path[2])) = None
         THEN Unbound
         ELSE Bound(TopLevel(trees[t].Includes[Identifier(path[1])].Tree,
                             Identifier(path[2])),
                    PathAfter(path, 2))
    ELSE Unbound

\* the references of tree t: its typedefs of a named type
References(t) ==
    {n \in DOMAIN trees[t].Nodes :
       trees[t].Nodes[n].k = "typedef" /\ trees[t].Nodes[n].Type.k = "name"}

\* the messages of bind-names
BindMessages == {"is a package", "no definition or package", "not found in package"}

\* the diagnostics bind-names has recorded at the reference n of tree t
DiagnosticsOf(t, n) == ErrorsAt(trees[t].Nodes[n].Type.Path[1].Loc, BindMessages)

\* C22: after bind-names on a tree, every reference of the tree has the binding and the
\* tail that the rule gives its path: the local declaration first, then the include,
\* then nothing; a reference that is bound has no diagnostic of bind-names, and one
\* that is not has exactly one.
C22_DottedPath ==
    \A t \in DOMAIN trees :
      Invoked("bindNames", t) =>
        \A n \in References(t) :
          /\ trees[t].Nodes[n].Type.Binding
               = PathRule(t, trees[t].Nodes[n].Type.Path).Binding
          /\ trees[t].Nodes[n].Type.Tail = PathRule(t, trees[t].Nodes[n].Type.Path).Tail
          /\ Cardinality(DiagnosticsOf(t, n))
               = IF PathRule(t, trees[t].Nodes[n].Type.Path) = Unbound THEN 1 ELSE 0

\* bind-names has run on a file that declares b and includes b, and whose references
\* are b.S, bound to its own b with the tail S, and a name that is nothing
C22_Witness ==
    /\ Invoked("bindNames", 1)
    /\ "b" \in DOMAIN trees[1].Includes
    /\ TopLevel(1, "b") # None
    /\ \E n, m \in References(1) :
         /\ Len(trees[1].Nodes[n].Type.Path) = 2
         /\ trees[1].Nodes[n].Type.Binding = TopLevel(1, "b")
         /\ Len(trees[1].Nodes[n].Type.Tail) = 1
         /\ trees[1].Nodes[m].Type.Binding = None
         /\ Cardinality(DiagnosticsOf(1, m)) = 1


----------------------------------------------------------------------------
(* C23 *)

\* the services of tree t
ServicesOf(t) ==
    {[T |-> t, N |-> n] : n \in {i \in DOMAIN trees[t].Nodes : trees[t].Nodes[i].k = "service"}}

\* the services the services X extend, where the reference is bound to a service
Extended(X) ==
    {Deref(trees, x).Extends[1].Binding[1] :
       x \in {y \in X : /\ Deref(trees, y).Extends # None
                        /\ BindingKind(trees, Deref(trees, y).Extends[1].Binding) = "service"}}

\* X and what is reached from it along at most k extends references
RECURSIVE ExtendedWithin(_, _)
ExtendedWithin(X, k) == IF k = 0 THEN X ELSE ExtendedWithin(X \cup Extended(X), k - 1)

\* the services whose extends reference the service-cycle check of tree t may read
WalkedFrom(t) == ExtendedWithin(ServicesOf(t), SumNodes(trees))

\* C23: whenever cyclic-check has been invoked on a tree, every extends reference that is
\* reachable from a service of that tree is bound to a service declaration, and the
\* conversion of a binding to a service in the service-cycle check has not failed
C23_ExtendsAreServices ==
    \A k \in DOMAIN calls :
       calls[k].phase = "cyclicCheck" =>
         /\ \A x \in WalkedFrom(calls[k].tree) :
               Deref(trees, x).Extends # None =>
                 BindingKind(trees, Deref(trees, x).Extends[1].Binding) = "service"
         /\ pc # "panic"

\* cyclic-check has run on the file a, whose service A extends the service C of the
\* include, which extends a service in turn
C23_Witness ==
    /\ Invoked("cyclicCheck", 1)
    /\ \E x \in ServicesOf(1) :
         /\ Deref(trees, x).Extends # None
         /\ \E y \in Extended({x}) : y.T = 2 /\ Extended({y}) # {}


----------------------------------------------------------------------------
(* C24 *)

\* the context held a diagnostic when Analyze was called (no diagnostic is ever removed)
HeldDiagnostic == context.Errors # <<>> /\ context.Errors[1].Message = PriorMessage

\* C24: on a non-empty list of trees Analyze returns true exactly when the context holds
\* no diagnostic as it returns; the driver goes on after an invocation exactly when the
\* context holds no diagnostic at all when the invocation returns; and with a context
\* that held a diagnostic already, Analyze returns false after the first invocation, of
\* enter-symbols on the first tree
C24_VerdictIsNoDiagnostic ==
    Len(trees) > 0 =>
      /\ pc = "done" => (result = "true" <=> context.Errors = <<>>)
      /\ \A k \in DOMAIN calls :
            IF calls[k].errors = 0
            THEN ~(k = Len(calls) /\ pc = "done" /\ result = "false")
            ELSE k = Len(calls) /\ pc # "running" /\ (pc = "done" => result = "false")
      /\ (HeldDiagnostic /\ calls # <<>>) =>
            /\ Len(calls) = 1
            /\ calls[1].phase = "enterSymbols" /\ calls[1].tree = 1
            /\ pc = "done" /\ result = "false"

\* Analyze has returned false on an acceptable program of several trees because of the
\* diagnostic the context held
C24_Witness ==
    /\ HeldDiagnostic
    /\ Len(trees) > 1
    /\ pc = "done" /\ result = "false"
    /\ Len(calls) = 1 /\ Len(context.Errors) = 1


----------------------------------------------------------------------------
(* C25 *)

\* entry i has an explicit value that is no int32
Unrepresentable(entries, i) ==
    /\ entries[i].Value # None
    /\ \/ IntLiteral(entries[i].Value[1]) < I32Min
       \/ IntLiteral(entries[i].Value[1]) > I32Max

\* the running value when the loop comes to entry i: 0 at the first entry, else the
\* final value of the entry before it incremented as an int32
RunningValue(entries, i) == IF i = 1 THEN 0 ELSE ToInt32(entries[i - 1].ConstVal + 1)

\* the enums enter-symbols has been run on, as pointers
EnteredEnums ==
    {ptr \in [T : DOMAIN trees, N : 1..SumNodes(trees)] :
       /\ Invoked("enterSymbols", ptr.T)
       /\ ptr.N \in DOMAIN trees[ptr.T].Nodes
       /\ trees[ptr.T].Nodes[ptr.N].k = "enum"}

\* C25: after enter-symbols, for an enum entry whose explicit value is no int32, a
\* diagnostic is recorded at the value, the entry's final value is the running value (the
\* one it would have without an explicit value), and an entry without explicit value
\* after it has that final value plus one
C25_UnrepresentableValue ==
    \A e \in EnteredEnums :
      \A i \in DOMAIN Deref(trees, e).Entries :
        Unrepresentable(Deref(trees, e).Entries, i) =>
          /\ ErrorsAt(Deref(trees, e).Entries[i].Value[1].Loc,
                      {"does not fit in a 32-bit integer"}) # {}
          /\ Deref(trees, e).Entries[i].ConstVal = RunningValue(Deref(trees, e).Entries, i)
          /\ (i < Len(Deref(trees, e).Entries)
              /\ Deref(trees, e).Entries[i + 1].Value = None) =>
                Deref(trees, e).Entries[i + 1].ConstVal
                  = ToInt32(Deref(trees, e).Entries[i].ConstVal + 1)

\* what the code does: the diagnostic is recorded, the final value is the literal
\* converted to int32, and the counter continues from it
C25_TruncatedValue ==
    \A e \in EnteredEnums :
      \A i \in DOMAIN Deref(trees, e).Entries :
        Unrepresentable(Deref(trees, e).Entries, i) =>
          /\ ErrorsAt(Deref(trees, e).Entries[i].Value[1].Loc,
                      {"does not fit in a 32-bit integer"}) # {}
          /\ Deref(trees, e).Entries[i].ConstVal
               = ToInt32(IntLiteral(Deref(trees, e).Entries[i].Value[1]))
          /\ (i < Len(Deref(trees, e).Entries)
              /\ Deref(trees, e).Entries[i + 1].Value = None) =>
                Deref(trees, e).Entries[i + 1].ConstVal
                  = ToInt32(Deref(trees, e).Entries[i].ConstVal + 1)

\* enter-symbols has run on an enum whose first entry has an explicit value beyond
\* int32: the entry's final value is the truncated literal, not 0
C25_Witness ==
    \E e \in EnteredEnums :
      /\ Unrepresentable(Deref(trees, e).Entries, 1)
      /\ Deref(trees, e).Entries[1].ConstVal # 0
      /\ Deref(trees, e).Entries[1].ConstVal
           = ToInt32(IntLiteral(Deref(trees, e).Entries[1].Value[1]))


----------------------------------------------------------------------------
(* C26 *)

\* Analyze has been called a second time, on trees its first call accepted
CalledAgain == \E k \in DOMAIN calls : calls[k] = SecondCall

\* the invocations of the second call
SecondRun ==
    {k \in DOMAIN calls : \E j \in 1..(k - 1) : calls[j] = SecondCall}

\* C26: a second Analyze, with a new context, on trees Analyze has accepted records no
\* diagnostic, no redeclaration by enter-symbols in particular, and returns true
C26_Repeatable ==
    CalledAgain =>
      /\ context.Errors = <<>>
      /\ \A k \in SecondRun : calls[k].errors = 0
      /\ pc = "done" => result = "true"

\* what the code does: the second call returns false after enter-symbols on the first
\* tree, with redeclarations only
C26_SecondCallRejects ==
    (CalledAgain /\ SecondRun # {}) =>
      /\ Cardinality(SecondRun) = 1
      /\ \A k \in SecondRun : calls[k].phase = "enterSymbols" /\ calls[k].tree = 1
      /\ pc = "done" /\ result = "false"
      /\ context.Errors # <<>>
      /\ ErrorsOf(RedeclarationMessages) = DOMAIN context.Errors

\* the second call on an accepted program of several trees has returned false with a
\* redeclaration
C26_Witness ==
    /\ CalledAgain
    /\ Len(trees) > 1
    /\ pc = "done" /\ result = "false"
    /\ ErrorsOf(RedeclarationMessages) # {}


----------------------------------------------------------------------------
(* C27 *)

\* the step is a call of a method of the socket
SocketCall == socket # <<>> /\ (returned' # returned \/ socket' # socket)

\* the step is a call in which the socket has dialled (a dial closes the connection
\* the socket had)
Redials == socket # <<>> /\ socket' # socket /\ returned'.dialed

\* the step is a call of Reuse that has succeeded
Reuses == SocketCall /\ returned'.op = "Reuse" /\ returned'.err = ""

\* C27: the socket dials again only while it is unverified, and only after a Reuse; a
\* dial that has succeeded and a Read that has returned bytes leave it verified, and it
\* stays verified until a Reuse succeeds; a write or a read that fails on a verified
\* socket is returned as it is, without a dial; and there is at most one dial since the
\* last Reuse
C27_RedialOnlyUnverified ==
    [][/\ Redials => (~socket.verified /\ returned.reused)
       /\ (socket.verified /\ ~socket'.verified) => Reuses
       /\ (returned'.dialed /\ socket'.closed = "") => socket'.verified
       /\ (returned'.op = "Read" /\ returned'.err = "" /\ returned'.n > 0)
            => socket'.verified
       /\ (SocketCall /\ socket.verified /\ returned'.failed # "")
            => (~returned'.dialed /\ returned'.err = returned'.failed
                /\ socket'.cn = socket.cn /\ conns' = conns)
       /\ returned'.redials <= 1]_vars

\* a socket that has dialled again after a Reuse has then failed on a write, of a
\* later Flush, and has returned the error without a dial
C27_Witness ==
    /\ socket # <<>>
    /\ returned.op = "Flush"
    /\ returned.failed # ""
    /\ returned.err = returned.failed
    /\ ~returned.dialed
    /\ returned.redials = 1
    /\ returned.reused
    /\ socket.verified


----------------------------------------------------------------------------
(* C28 *)

\* the errors of a broken pipe
BrokenPipeErrors == {"EOF", "EPIPE", "ECONNRESET"}

\* C28: a call dials again only after a write or a read has failed with an error of a
\* broken pipe; when a write or a read fails with another error, a timeout for one, the
\* call returns that error, keeps the connection and does not dial
C28_RedialOnlyBrokenPipe ==
    [][/\ Redials => returned'.failed \in BrokenPipeErrors
       /\ (SocketCall /\ returned'.failed # "" /\ returned'.failed \notin BrokenPipeErrors)
            => /\ ~returned'.dialed
               /\ returned'.err = returned'.failed
               /\ socket'.cn = socket.cn
               /\ conns' = conns]_vars

\* what the code does: an open, unverified socket dials again after any error of its
\* write or read
C28_RedialOnAnyError ==
    [][(SocketCall /\ socket.closed = "" /\ ~socket.verified /\ returned'.failed # "")
          => Redials]_vars

\* a Flush of an unverified socket whose peer is there has timed out, the socket has
\* closed the connection and dialled again
C28_Witness ==
    /\ socket # <<>>
    /\ returned.op = "Flush"
    /\ returned.failed = "timeout"
    /\ ~isRestartable(returned.failed)
    /\ returned.dialed
    /\ conns[1].closed
    /\ conns[1].peer = "open"


----------------------------------------------------------------------------
(* C29 *)

\* the step is a call in which the socket has dialled and the dial has succeeded
DialsAnew == Redials /\ Len(conns') = Len(conns) + 1

\* C29: when the socket has dialled again, what it writes to the new connection is the
\* chunks Flush has taken since the last Reuse, the one of the failing Flush included,
\* each once, in order, with the bytes they had when Flush took them (up to the chunk
\* whose write fails, if one does); the resend buffer is empty afterwards, and after a
\* Reuse
C29_ResendsWhatWasFlushed ==
    [][/\ DialsAnew
            => /\ Len(returned'.resent) <= Len(returned'.flushed)
               /\ \A i \in DOMAIN returned'.resent :
                     returned'.resent[i] = returned'.flushed[i]
               /\ Len(returned'.resent) = ToResend
                     => Len(returned'.flushed) = ToResend
               /\ socket'.resendBuffer = <<>>
       /\ Reuses => socket'.resendBuffer = <<>>]_vars

\* what the code does: it writes as many chunks as Flush has taken, of the same lengths
\* and in order, and empties the resend buffer
C29_ResendsAsManyBytes ==
    [][/\ DialsAnew
            => /\ Len(returned'.resent) <= Len(returned'.flushed)
               /\ \A i \in DOMAIN returned'.resent :
                     Len(returned'.resent[i]) = Len(returned'.flushed[i])
               /\ Len(returned'.resent) = ToResend
                     => Len(returned'.flushed) = ToResend
               /\ socket'.resendBuffer = <<>>
       /\ Reuses => socket'.resendBuffer = <<>>]_vars

\* the socket has dialled again and has written every chunk, and a chunk it has written
\* has not the bytes Flush took
C29_Witness ==
    /\ socket # <<>>
    /\ returned.dialed /\ returned.reused
    /\ socket.closed = ""
    /\ Len(returned.resent) = Len(returned.flushed)
    /\ \E i \in DOMAIN returned.resent : returned.resent[i] # returned.flushed[i]


----------------------------------------------------------------------------
(* C30 *)

\* the step is a call of Reuse
ReuseCall == SocketCall /\ returned'.op = "Reuse"

\* the socket is open, has no byte written and not flushed, and every byte it has
\* received has been copied out by Read
ReadyForReuse ==
    /\ socket.closed = ""
    /\ Len(socket.writeBuffer.bytes) = 0
    /\ socket.readPos = socket.readLimit

\* C30: Reuse returns nil, with the socket unverified and the resend buffer empty, on
\* every open socket without unflushed writes whose received bytes have all been read;
\* it returns ErrPendingReads only when received bytes are unread, ErrPendingWrites only
\* when written bytes are not flushed, the closed error only when the socket is closed,
\* and when it returns an error it changes nothing
C30_ReuseWhenAllConsumed ==
    [][ReuseCall
         => /\ ReadyForReuse
                 => /\ returned'.err = ""
                    /\ ~socket'.verified
                    /\ socket'.resendBuffer = <<>>
            /\ returned'.err = ErrPendingReads => socket.readPos < socket.readLimit
            /\ returned'.err = ErrPendingWrites => Len(socket.writeBuffer.bytes) > 0
            /\ returned'.err = ErrSocketClosed => socket.closed # ""
            /\ returned'.err \in {"", ErrPendingReads, ErrPendingWrites, ErrSocketClosed}
            /\ returned'.err # ""
                 => socket' = socket /\ stores' = stores /\ conns' = conns]_vars

\* what the code does: Reuse returns ErrPendingReads on an open socket whenever the
\* read buffer was filled and not emptied by a failed read, read or not
C30_ReuseAsCoded ==
    [][ReuseCall
         => /\ returned'.err = "" <=> (/\ socket.closed = ""
                                       /\ socket.readLimit = 0
                                       /\ Len(socket.writeBuffer.bytes) = 0)
            /\ returned'.err = "" => ~socket'.verified /\ socket'.resendBuffer = <<>>
            /\ returned'.err = ErrPendingReads
                 <=> (socket.closed = "" /\ socket.readLimit # 0)
            /\ returned'.err = ErrPendingWrites => Len(socket.writeBuffer.bytes) > 0
            /\ returned'.err = ErrSocketClosed <=> socket.closed # ""
            /\ returned'.err # ""
                 => socket' = socket /\ stores' = stores /\ conns' = conns]_vars

\* Reuse has returned ErrPendingReads on an open socket that has no unflushed write and
\* no unread byte
C30_Witness ==
    /\ socket # <<>>
    /\ returned.op = "Reuse"
    /\ returned.err = ErrPendingReads
    /\ socket.closed = ""
    /\ Len(socket.writeBuffer.bytes) = 0
    /\ socket.readLimit > 0
    /\ socket.readPos = socket.readLimit

====
